---- MODULE Spec2Model ----
(***************************************************************************)
(* A state-machine model of the kvm-kext control core (src/main.cpp):      *)
(* the EPT page-table manager, the VM-exit handlers, the run loop with its *)
(* interrupt injection, and the ioctl control surface.                     *)
(*                                                                         *)
(* An unsigned long (and every narrower C integer) is modelled exactly, as *)
(* the set of the positions of its 1 bits: 0 is {}, a | b is a \cup b,     *)
(* a & b is a \cap b, a & ~b is a \ b, and a >> n moves every position     *)
(* down by n.  Nothing is scaled: the page size is 4096, a table has 512   *)
(* entries, the index shifts are 39, 30, 21 and 12.                        *)
(***************************************************************************)
EXTENDS Integers, Sequences, FiniteSets, TLC

VARIABLES
  vcpu,        \* state->vcpu: the struct vcpu (a record), or NoVcpu before KVM_CREATE_VM
  vmcs,        \* the fields of the hardware control structure the code reads and writes
  heap,        \* the memory handed out by IOCallocAligned: page-table nodes and APIC pages
  ioctl_lock,  \* state->ioctl_lock is held (by a KVM_RUN in progress)
  irq_lock,    \* state->irq_lock is held (by a KVM_IRQ_LINE in progress)
  run,         \* the locals and the position of the thread inside kvm_run_wrapper
  irq,         \* the locals and the position of the thread inside kvm_irq_line
  irqHist,     \* what the KVM_IRQ_LINE calls asked for so far, line by line
  ret,         \* the value the last ioctl returned
  out,         \* what the last ioctl wrote back through pData
  call,        \* the command and the arguments of the last ioctl
  ncalls,      \* how many ioctls were issued
  eptLog,      \* the (guest address, host address) pairs ept_add_page was called with, in order
  calls,       \* the (guest base, size) of every KVM_SET_USER_MEMORY_REGION issued
  installed,   \* the (guest base, size) of every one that returned 0
  diag         \* the diagnostics the last KVM_RUN printed

vars == <<vcpu, vmcs, heap, ioctl_lock, irq_lock, run, irq, irqHist, ret, out, call, ncalls,
          eptLog, calls, installed, diag>>

(***************************************************************************)
(* Bounds of the model.                                                    *)
(***************************************************************************)
\* ioctls other than KVM_IRQ_LINE issued in one behaviour
MaxCalls == 3

\* KVM_RUN calls in one behaviour
MaxRuns == 1

\* KVM_IRQ_LINE calls in one behaviour
MaxIrqCalls == 2

\* world switches of a run in the specifications that cap them: at the cap the guest halts
MaxIter == 2

\* KVM_RUN calls in one behaviour of the port I/O specification
MaxIoRuns == 2

(***************************************************************************)
(* Machine integers as sets of bit positions.                              *)
(***************************************************************************)
NULL == {}

\* what a load through a null (or wild) pointer yields: no unsigned long has bit 64
FAULT == {64}

\* the value of a small non-negative number
FromNat(n) == {b \in 0..30 : (n \div (2^b)) % 2 = 1}

RECURSIVE ToNat(_)
\* the number a value below 2^31 stands for
ToNat(v) == IF v = {} THEN 0
            ELSE LET b == CHOOSE x \in v : TRUE IN (2^b) + ToNat(v \ {b})

\* a hexadecimal literal, most significant digit first
Hex(ds) == UNION { {4 * (Len(ds) - i) + j : j \in {k \in 0..3 : (ds[i] \div (2^k)) % 2 = 1}}
                   : i \in 1..Len(ds) }

\* v >> n
Shr(v, n) == {b - n : b \in {x \in v : x >= n}}

\* v << n in w bits
Shl(v, n, w) == {b + n : b \in {x \in v : x + n < w}}

\* the low w bits: a conversion to a w-bit unsigned type
Trunc(v, w) == {b \in v : b < w}

\* the conversion of a 32-bit int to unsigned long: the sign bit is copied upwards
SignExtend32(v) == IF 31 \in v THEN Trunc(v, 32) \cup (32..63) ELSE Trunc(v, 32)

MaxOf(S) == CHOOSE x \in S : \A y \in S : y <= x

\* a < b, unsigned
Lt(a, b) == /\ a # b
            /\ MaxOf((a \ b) \cup (b \ a)) \in b

RECURSIVE AddFrom(_, _, _, _, _)
AddFrom(a, b, i, c, w) ==
  IF i >= w \/ (c = 0 /\ \A x \in a \cup b : x < i) THEN {}
  ELSE LET s == (IF i \in a THEN 1 ELSE 0) + (IF i \in b THEN 1 ELSE 0) + c
       IN  (IF s % 2 = 1 THEN {i} ELSE {}) \cup AddFrom(a, b, i + 1, s \div 2, w)

\* a + b on unsigned long
Add64(a, b) == AddFrom(a, b, 0, 0, 64)

(***************************************************************************)
(* Constants of the program and of the headers it includes.                *)
(***************************************************************************)
PAGE_SIZE == 4096
PAGE_OFFSET == 512
IRQ_MAX == 16
EINVAL == 22
EOPNOTSUPP == 102

\* PAGE_SIZE - 1, the bits of the offset inside a page
PageOffsetBits == FromNat(PAGE_SIZE - 1)

VMX_EPT_READABLE_MASK == {0}
VMX_EPT_WRITABLE_MASK == {1}
VMX_EPT_EXECUTABLE_MASK == {2}
EPT_CACHE_WRITEBACK == Shl(FromNat(6), 3, 32)
EPT_DEFAULTS == VMX_EPT_EXECUTABLE_MASK \cup VMX_EPT_WRITABLE_MASK \cup VMX_EPT_READABLE_MASK

\* 0xfee00000, the guest physical address of the APIC page
APIC_BASE == Hex(<<15, 14, 14, 0, 0, 0, 0, 0>>)

(***************************************************************************)
(* The allocator and the memory of the allocations.  An allocation is a    *)
(* zero-filled array of unsigned longs; w holds the slots written so far.  *)
(* The kernel address of the n-th allocation is KernelBase + n * 2 pages,  *)
(* and __pa takes the kernel base off.                                     *)
(***************************************************************************)
KernelBase == 47..63

NodeVA(n) == KernelBase \cup Shl(FromNat(n), 13, 47)

NodeOf(p) == ToNat(Shr(p \ KernelBase, 13))

IsNode(h, p) == /\ p # NULL
                /\ p # FAULT
                /\ KernelBase \subseteq p
                /\ LET n == NodeOf(p) IN n \in DOMAIN h /\ NodeVA(n) = p

\* __pa: the physical address of a kernel address
__pa(p) == p \ KernelBase

\* IOCallocAligned(len * sizeof(unsigned long), PAGE_SIZE): the heap with the new allocation
IOCallocAligned(h, len) == Append(h, [len |-> len, w |-> <<>>])

\* the pointer IOCallocAligned returned
LastAlloc(h) == NodeVA(Len(h))

\* p[i]
Load(h, p, i) ==
  IF ~IsNode(h, p) THEN FAULT
  ELSE LET w == h[NodeOf(p)].w IN IF i \in DOMAIN w THEN w[i] ELSE {}

\* p[i] = v
Store(h, p, i, v) ==
  [h EXCEPT ![NodeOf(p)].w =
     [k \in (DOMAIN @) \cup {i} |-> IF k = i THEN v ELSE @[k]]]

(***************************************************************************)
(* The page-table manager.                                                 *)
(***************************************************************************)
\* (virtual_address >> shift) & 0x1FF
EptIndex(virtual_address, shift) ==
  ToNat({b - shift : b \in {x \in virtual_address : x >= shift /\ x < shift + 9}})

\* ept_init: the heap with the root table allocated; vcpu->pml4 is LastAlloc of it
ept_init(h) == IOCallocAligned(h, 2 * PAGE_OFFSET)

\* the result of ept_translate: pt[pt_idx] & ~(PAGE_SIZE-1), or 0 when a level is missing
\* ept_translate without the NULL test on the level-2 table
ept_translate_unchecked_pd(h, v, virtual_address) ==
  LET pdpt == Load(h, v.pml4, PAGE_OFFSET + EptIndex(virtual_address, 39))
  IN  IF pdpt = NULL THEN {}
      ELSE LET pd == Load(h, pdpt, PAGE_OFFSET + EptIndex(virtual_address, 30))
               pt == Load(h, pd, PAGE_OFFSET + EptIndex(virtual_address, 21))
           IN  IF pt = NULL THEN {}
               ELSE Load(h, pt, EptIndex(virtual_address, 12)) \ PageOffsetBits

ept_translate(h, v, virtual_address) ==
  LET pml4_idx == EptIndex(virtual_address, 39)
      pdpt_idx == EptIndex(virtual_address, 30)
      pd_idx   == EptIndex(virtual_address, 21)
      pt_idx   == EptIndex(virtual_address, 12)
      pdpt     == Load(h, v.pml4, PAGE_OFFSET + pml4_idx)
  IN  IF pdpt = NULL THEN {}
      ELSE LET pd == Load(h, pdpt, PAGE_OFFSET + pdpt_idx)
           IN  IF pd = NULL THEN {}
               ELSE LET pt == Load(h, pd, PAGE_OFFSET + pd_idx)
                    IN  IF pt = NULL THEN {}
                        ELSE Load(h, pt, pt_idx) \ PageOffsetBits

\* the block of ept_add_page without the store of the entry the processor reads
EptEnsureChild_pointer_only(h, table, idx, len) ==
  IF Load(h, table, PAGE_OFFSET + idx) = NULL
  THEN LET h1    == IOCallocAligned(h, len)
           child == LastAlloc(h1)
       IN  Store(h1, table, PAGE_OFFSET + idx, child)
  ELSE h

\* one "allocate the child if NULL" block of ept_add_page: the heap after it
EptEnsureChild(h, table, idx, len) ==
  IF Load(h, table, PAGE_OFFSET + idx) = NULL
  THEN LET h1    == IOCallocAligned(h, len)
           child == LastAlloc(h1)
           h2    == Store(h1, table, PAGE_OFFSET + idx, child)
       IN  Store(h2, table, idx, __pa(child) \cup EPT_DEFAULTS)
  ELSE h

\* ept_add_page that keeps a leaf entry already present
ept_add_page_keep_first(h, v, virtual_address, physical_address) ==
  LET h1   == EptEnsureChild(h, v.pml4, EptIndex(virtual_address, 39), 2 * PAGE_OFFSET)
      pdpt == Load(h1, v.pml4, PAGE_OFFSET + EptIndex(virtual_address, 39))
      h2   == EptEnsureChild(h1, pdpt, EptIndex(virtual_address, 30), 2 * PAGE_OFFSET)
      pd   == Load(h2, pdpt, PAGE_OFFSET + EptIndex(virtual_address, 30))
      h3   == EptEnsureChild(h2, pd, EptIndex(virtual_address, 21), PAGE_OFFSET)
      pt   == Load(h3, pd, PAGE_OFFSET + EptIndex(virtual_address, 21))
  IN  IF Load(h3, pt, EptIndex(virtual_address, 12)) # NULL THEN h3
      ELSE Store(h3, pt, EptIndex(virtual_address, 12),
                 physical_address \cup EPT_DEFAULTS \cup EPT_CACHE_WRITEBACK)

\* ept_add_page: the heap after it
ept_add_page(h, v, virtual_address, physical_address) ==
  LET pml4_idx == EptIndex(virtual_address, 39)
      pdpt_idx == EptIndex(virtual_address, 30)
      pd_idx   == EptIndex(virtual_address, 21)
      pt_idx   == EptIndex(virtual_address, 12)
      h1       == EptEnsureChild(h, v.pml4, pml4_idx, 2 * PAGE_OFFSET)
      pdpt     == Load(h1, v.pml4, PAGE_OFFSET + pml4_idx)
      h2       == EptEnsureChild(h1, pdpt, pdpt_idx, 2 * PAGE_OFFSET)
      pd       == Load(h2, pdpt, PAGE_OFFSET + pdpt_idx)
      h3       == EptEnsureChild(h2, pd, pd_idx, PAGE_OFFSET)
      pt       == Load(h3, pd, PAGE_OFFSET + pd_idx)
  IN  Store(h3, pt, pt_idx, physical_address \cup EPT_DEFAULTS \cup EPT_CACHE_WRITEBACK)

(***************************************************************************)
(* struct vcpu and the control structure.                                  *)
(***************************************************************************)
RegNames == {"rax", "rcx", "rdx", "rbx", "rsp", "rbp", "rsi", "rdi",
             "r8", "r9", "r10", "r11", "r12", "r13", "r14", "r15", "rip"}

\* the 16 general-purpose slots of struct kvm_regs
GpNames == RegNames \ {"rip"}

\* state->vcpu == NULL: no struct vcpu
NoVcpu == [pml4 |-> NULL]

\* IOCalloc(sizeof(struct vcpu)): every field zero
vcpu_calloc ==
  [ regs                 |-> [r \in RegNames |-> {}],
    rflags               |-> {},
    cr2                  |-> {},
    pio_data             |-> {},
    launched             |-> 0,
    pending_io           |-> 0,
    cr3_shadow           |-> {},
    exit_qualification   |-> {},
    exit_instruction_len |-> {},
    phys                 |-> {},
    irq_level            |-> [i \in 0..(IRQ_MAX - 1) |-> 0],
    pending_irq          |-> {},
    cpuids               |-> <<>>,
    cpuid_count          |-> 0,
    virtual_apic_page    |-> NULL,
    apic_access          |-> NULL,
    spin_locked          |-> FALSE,
    vmcs_loaded          |-> 0,
    pml4                 |-> NULL,
    mm                   |-> NULL,
    pit_state            |-> {},
    irqchip              |-> {},
    paging               |-> 0,
    kvm_vcpu             |-> [exit_reason |-> 0,
                              io |-> [direction |-> 0, size |-> 0, port |-> {},
                                      count |-> 0, data_offset |-> 0]] ]

\* the fields of a control structure after allocate_vmcs and vmcs_clear, and its launch
\* state, which VMCLEAR makes "clear" and a VMLAUNCH that enters the guest "launched"
vmcs_clear ==
  [ launch_state              |-> "clear",
    CPU_BASED_VM_EXEC_CONTROL |-> {},
    SECONDARY_VM_EXEC_CONTROL |-> {},
    VM_ENTRY_INTR_INFO_FIELD  |-> {},
    EPT_POINTER               |-> {},
    APIC_ACCESS_ADDR          |-> {},
    VIRTUAL_APIC_PAGE_ADDR    |-> {},
    CR0_GUEST_HOST_MASK       |-> {},
    CR0_READ_SHADOW           |-> {},
    CR4_GUEST_HOST_MASK       |-> {},
    CR4_READ_SHADOW           |-> {},
    GUEST_CR0                 |-> {},
    GUEST_CR3                 |-> {},
    GUEST_CR4                 |-> {},
    GUEST_RFLAGS              |-> {},
    GUEST_RSP                 |-> {},
    GUEST_RIP                 |-> {} ]

\* bits of the execution controls (asm/uapi_vmx.h)
CPU_BASED_VIRTUAL_INTR_PENDING == {2}
CPU_BASED_MOV_DR_EXITING == {23}
CPU_BASED_UNCOND_IO_EXITING == {24}
CPU_BASED_TPR_SHADOW == {21}
CPU_BASED_ACTIVATE_SECONDARY_CONTROLS == {31}
CPU_BASED_CR3_LOAD_EXITING == {15}
CPU_BASED_CR3_STORE_EXITING == {16}
\* 0x0401e172
CPU_BASED_ALWAYSON_WITHOUT_TRUE_MSR == Hex(<<0, 4, 0, 1, 14, 1, 7, 2>>)
SECONDARY_EXEC_VIRTUALIZE_APIC_ACCESSES == {0}
SECONDARY_EXEC_ENABLE_EPT == {1}
SECONDARY_EXEC_UNRESTRICTED_GUEST == {7}

\* RELEASE_VMCS that leaves vmcs_loaded as it is
RELEASE_VMCS_keeps_loaded(v) == [v EXCEPT !.spin_locked = FALSE]

\* LOAD_VMCS without vmcs_load
LOAD_VMCS_lock_only(v) == [v EXCEPT !.spin_locked = TRUE]

\* LOAD_VMCS
LOAD_VMCS(v) == [v EXCEPT !.spin_locked = TRUE, !.vmcs_loaded = 1]

\* RELEASE_VMCS
RELEASE_VMCS(v) == [v EXCEPT !.spin_locked = FALSE, !.vmcs_loaded = 0]

\* vcpu_init: the vcpu, the heap and the control structure after it
vcpu_init(h, v, c) ==
  LET h1 == IOCallocAligned(h, PAGE_OFFSET)
      v1 == [v EXCEPT !.virtual_apic_page = LastAlloc(h1)]
      h2 == IOCallocAligned(h1, PAGE_OFFSET)
      v2 == [v1 EXCEPT !.apic_access = LastAlloc(h2)]
      h3 == ept_add_page(h2, v2, APIC_BASE, __pa(v2.apic_access))
      c1 == [c EXCEPT
               !.EPT_POINTER = __pa(v.pml4) \cup Shl(FromNat(3), 3, 64),
               !.VIRTUAL_APIC_PAGE_ADDR = __pa(v2.virtual_apic_page),
               !.APIC_ACCESS_ADDR = __pa(v2.apic_access),
               !.CPU_BASED_VM_EXEC_CONTROL =
                  (CPU_BASED_ALWAYSON_WITHOUT_TRUE_MSR
                     \ (CPU_BASED_CR3_LOAD_EXITING \cup CPU_BASED_CR3_STORE_EXITING))
                  \cup CPU_BASED_TPR_SHADOW \cup CPU_BASED_ACTIVATE_SECONDARY_CONTROLS
                  \cup CPU_BASED_UNCOND_IO_EXITING \cup CPU_BASED_MOV_DR_EXITING,
               !.SECONDARY_VM_EXEC_CONTROL =
                  SECONDARY_EXEC_UNRESTRICTED_GUEST \cup SECONDARY_EXEC_ENABLE_EPT
                  \cup SECONDARY_EXEC_VIRTUALIZE_APIC_ACCESSES,
               !.CR0_GUEST_HOST_MASK = SignExtend32({31}),
               !.CR0_READ_SHADOW = {},
               !.CR4_GUEST_HOST_MASK = {13},
               !.CR4_READ_SHADOW = {}]
  IN  [vcpu |-> v2, heap |-> h3, vmcs |-> c1,
       log |-> <<[va |-> APIC_BASE, pa |-> __pa(v2.apic_access)]>>]

\* case KVM_CREATE_VM of kvm_dev_ioctl: the vcpu, the heap and the control structure after it
create_vm(h) ==
  LET h1 == ept_init(h)
      v1 == [vcpu_calloc EXCEPT !.pml4 = LastAlloc(h1), !.pending_io = 0]
      r  == vcpu_init(h1, LOAD_VMCS(v1), vmcs_clear)
  IN  [r EXCEPT !.vcpu = RELEASE_VMCS(@)]

(***************************************************************************)
(* KVM_SET_USER_MEMORY_REGION.  The pinning service is the caller's: for   *)
(* the n-th page of the caller's range it knows a frame (frames[n]), or    *)
(* none ({}), and getPhysicalSegment answers with the physical address of  *)
(* the byte at the offset asked for.                                       *)
(***************************************************************************)
getPhysicalSegment(frames, userspace_addr, off) ==
  LET byte == ToNat(userspace_addr \cap PageOffsetBits) + off
      frame == frames[byte \div PAGE_SIZE]
  IN  IF frame = {} THEN {} ELSE frame \cup FromNat(byte % PAGE_SIZE)

RECURSIVE MapRegionFrom(_, _, _, _, _, _)
\* the for loop of kvm_set_user_memory_region from offset off on
MapRegionFrom(h, v, mr, frames, off, log) ==
  IF off < mr.memory_size
  THEN LET physical == getPhysicalSegment(frames, mr.userspace_addr, off)
           guest    == Add64(mr.guest_phys_addr, FromNat(off))
       IN  IF physical # {}
           THEN MapRegionFrom(ept_add_page(h, v, guest, physical), v, mr, frames,
                              off + PAGE_SIZE,
                              Append(log, [va |-> guest, pa |-> physical]))
           ELSE [heap |-> h, ret |-> EINVAL, log |-> log]
  ELSE [heap |-> h, ret |-> 0, log |-> log]

\* kvm_set_user_memory_region whose loop stops after the first page
kvm_set_user_memory_region_first_page(h, v, mr, prepare, frames) ==
  IF prepare # 0 THEN [heap |-> h, ret |-> EINVAL, log |-> <<>>]
  ELSE MapRegionFrom(h, v, [mr EXCEPT !.memory_size = IF @ > PAGE_SIZE THEN PAGE_SIZE ELSE @],
                     frames, 0, <<>>)

\* kvm_set_user_memory_region: the heap, the value returned, the ept_add_page calls made
kvm_set_user_memory_region(h, v, mr, prepare, frames) ==
  IF prepare # 0 THEN [heap |-> h, ret |-> EINVAL, log |-> <<>>]
  ELSE MapRegionFrom(h, v, mr, frames, 0, <<>>)

(***************************************************************************)
(* The VM-exit handlers.  A handler takes the vcpu and the control         *)
(* structure and gives both back with its continue (1) or stop (0) signal. *)
(***************************************************************************)
EXIT_REASON_EXTERNAL_INTERRUPT == 1
EXIT_REASON_PENDING_INTERRUPT == 7
EXIT_REASON_TASK_SWITCH == 9
EXIT_REASON_CPUID == 10
EXIT_REASON_HLT == 12
EXIT_REASON_CR_ACCESS == 28
EXIT_REASON_DR_ACCESS == 29
EXIT_REASON_IO_INSTRUCTION == 30
EXIT_REASON_MSR_READ == 31
EXIT_REASON_MSR_WRITE == 32
EXIT_REASON_APIC_ACCESS == 44
EXIT_REASON_EPT_VIOLATION == 48
EXIT_REASON_PREEMPTION_TIMER == 52
KVM_EXIT_IO == 2
KVM_EXIT_IO_IN == 0
KVM_EXIT_IO_OUT == 1
KVM_PIO_PAGE_OFFSET == 1
INTR_INFO_VALID_MASK == {31}
INTR_TYPE_EXT_INTR == {}

\* enum kvm_reg: the register a 4-bit register number names
RegByIndex == <<"rax", "rcx", "rdx", "rbx", "rsp", "rbp", "rsi", "rdi",
                "r8", "r9", "r10", "r11", "r12", "r13", "r14", "r15">>

\* skip_emulated_instruction that leaves rip where it is
skip_emulated_instruction_none(v) == v

skip_emulated_instruction(v) ==
  [v EXCEPT !.regs["rip"] = Add64(@, v.exit_instruction_len)]

\* memcpy(dst, &val, n): the low n bytes of dst replaced by those of val
MemcpyLow(dst, val, n) == (dst \ (0..(8 * n - 1))) \cup Trunc(val, 8 * n)

handle_io(v, c) ==
  LET in   == IF v.exit_qualification \cap {3} # {} THEN 1 ELSE 0
      size == ToNat(v.exit_qualification \cap FromNat(7)) + 1
      io   == [direction   |-> IF in = 1 THEN KVM_EXIT_IO_IN ELSE KVM_EXIT_IO_OUT,
               size        |-> size,
               port        |-> Trunc(Shr(v.exit_qualification, 16), 16),
               count       |-> 1,
               data_offset |-> KVM_PIO_PAGE_OFFSET * PAGE_SIZE]
      v1   == [v EXCEPT !.kvm_vcpu.io = io]
      v2   == IF in = 0
              THEN [v1 EXCEPT !.pio_data = MemcpyLow(@, v.regs["rax"],
                                                     IF size < 8 THEN size ELSE 8)]
              ELSE [v1 EXCEPT !.pending_io = 1]
      v3   == [v2 EXCEPT !.kvm_vcpu.exit_reason = KVM_EXIT_IO]
  IN  [vcpu |-> skip_emulated_instruction(v3), vmcs |-> c, cont |-> 0]

RECURSIVE CpuidFind(_, _, _, _)
\* the for loop of handle_cpuid from entry i on: the index of the first match, 0 if none
CpuidFind(cpuids, i, function, index) ==
  IF i > Len(cpuids) THEN 0
  ELSE IF cpuids[i].function = function /\ cpuids[i].index = index THEN i
  ELSE CpuidFind(cpuids, i + 1, function, index)

\* handle_cpuid that clears the feature bits of function 1 in the host's answer only
handle_cpuid_masks_host_only(v, c, hw) ==
  LET function == Trunc(v.regs["rax"], 32)
      i        == CpuidFind(SubSeq(v.cpuids, 1, v.cpuid_count), 1, function,
                            Trunc(v.regs["rcx"], 32))
      mask     == function = FromNat(1) /\ i = 0
      got      == IF i # 0 THEN v.cpuids[i] ELSE hw
      v1       == [v EXCEPT
                     !.regs["rax"] = Trunc(got.eax, 32),
                     !.regs["rbx"] = Trunc(got.ebx, 32),
                     !.regs["rcx"] = Trunc(IF mask THEN got.ecx \ {0, 9, 19, 20, 26, 27}
                                           ELSE got.ecx, 32),
                     !.regs["rdx"] = Trunc(IF mask THEN got.edx \ {25, 26} ELSE got.edx, 32)]
  IN  [vcpu |-> skip_emulated_instruction(v1), vmcs |-> c, cont |-> 1]

\* handle_cpuid; hw is what the cpuid instruction of the host gives for (eax, ecx)
handle_cpuid(v, c, hw) ==
  LET function == Trunc(v.regs["rax"], 32)
      index    == Trunc(v.regs["rcx"], 32)
      i        == CpuidFind(SubSeq(v.cpuids, 1, v.cpuid_count), 1, function, index)
      got      == IF i # 0 THEN v.cpuids[i] ELSE hw
      edx      == IF function = FromNat(1) THEN got.edx \ {25, 26} ELSE got.edx
      ecx      == IF function = FromNat(1)
                  THEN ((got.ecx \ {0, 9}) \ {19, 20}) \ {26, 27}
                  ELSE got.ecx
      v1       == [v EXCEPT !.regs["rax"] = Trunc(got.eax, 32),
                            !.regs["rbx"] = Trunc(got.ebx, 32),
                            !.regs["rcx"] = Trunc(ecx, 32),
                            !.regs["rdx"] = Trunc(edx, 32)]
  IN  [vcpu |-> skip_emulated_instruction(v1), vmcs |-> c, cont |-> 1]

\* handle_rdmsr; msr is what the rdmsr instruction of the host gives for ecx
handle_rdmsr(v, c, msr) ==
  LET v1 == [v EXCEPT !.regs["rax"] = Trunc(msr, 32),
                      !.regs["rdx"] = Trunc(Shr(msr, 32), 32)]
  IN  [vcpu |-> skip_emulated_instruction(v1), vmcs |-> c, cont |-> 1]

\* handle_wrmsr that executes no skip_emulated_instruction
handle_wrmsr_no_skip(v, c) == [vcpu |-> v, vmcs |-> c, cont |-> 1]

handle_wrmsr(v, c) == [vcpu |-> skip_emulated_instruction(v), vmcs |-> c, cont |-> 1]

handle_ept_violation(v, c) ==
  [vcpu |-> skip_emulated_instruction(v), vmcs |-> c, cont |-> 1]

handle_preemption_timer(v, c) == [vcpu |-> v, vmcs |-> c, cont |-> 1]

\* handle_external_interrupt without the test of the exit qualification
handle_external_interrupt_any_qualification(v, c, loaded, signal) ==
  [vcpu |-> [v EXCEPT !.pending_irq = loaded \cup FromNat(1)], vmcs |-> c,
   cont |-> IF signal THEN 0 ELSE 1]

\* handle_external_interrupt; loaded is the value its |= read from pending_irq, signal is
\* what proc_issignal answers
handle_external_interrupt(v, c, loaded, signal) ==
  LET v1 == IF v.exit_qualification = {}
            THEN [v EXCEPT !.pending_irq = loaded \cup FromNat(1)]
            ELSE v
  IN  [vcpu |-> v1, vmcs |-> c, cont |-> IF signal THEN 0 ELSE 1]

handle_apic_access(v, c) == [vcpu |-> skip_emulated_instruction(v), vmcs |-> c, cont |-> 1]

\* handle_interrupt_window with a skip_emulated_instruction
handle_interrupt_window_skips(v, c) ==
  [vcpu |-> skip_emulated_instruction(v), vmcs |-> c, cont |-> 1]

handle_interrupt_window(v, c) == [vcpu |-> v, vmcs |-> c, cont |-> 1]

handle_dr(v, c) == [vcpu |-> skip_emulated_instruction(v), vmcs |-> c, cont |-> 1]

handle_cr(v, c) ==
  LET cr_num    == ToNat(v.exit_qualification \cap FromNat(15))
      cr_type   == ToNat(Shr(v.exit_qualification \cap Hex(<<3, 0>>), 4))
      cr_to_reg == RegByIndex[ToNat(Shr(v.exit_qualification \cap Hex(<<15, 0, 0>>), 8)) + 1]
      val       == v.regs[cr_to_reg]
      r == IF cr_num = 3 /\ cr_type = 0
             THEN [vcpu |-> [v EXCEPT !.cr3_shadow = val],
                   vmcs |-> [c EXCEPT !.GUEST_CR3 = val]]
           ELSE IF cr_num = 3 /\ cr_type = 1
             THEN [vcpu |-> [v EXCEPT !.regs[cr_to_reg] = v.cr3_shadow], vmcs |-> c]
           ELSE IF cr_num = 0 /\ cr_type = 0
             THEN IF val \cap SignExtend32({31}) # {}
                  THEN [vcpu |-> [v EXCEPT !.paging = 1],
                        vmcs |-> [c EXCEPT
                                    !.GUEST_CR0 = val,
                                    !.SECONDARY_VM_EXEC_CONTROL =
                                       @ \ SECONDARY_EXEC_UNRESTRICTED_GUEST,
                                    !.CR0_READ_SHADOW = SignExtend32({31})]]
                  ELSE [vcpu |-> [v EXCEPT !.paging = 0],
                        vmcs |-> [c EXCEPT
                                    !.GUEST_CR0 = val,
                                    !.SECONDARY_VM_EXEC_CONTROL =
                                       @ \cup SECONDARY_EXEC_UNRESTRICTED_GUEST,
                                    !.CR0_READ_SHADOW = {}]]
           ELSE [vcpu |-> v, vmcs |-> c]
  IN  [vcpu |-> skip_emulated_instruction(r.vcpu), vmcs |-> r.vmcs, cont |-> 1]

handle_task_switch(v, c) == [vcpu |-> v, vmcs |-> c, cont |-> 1]

\* the handler table: the handler of an exit reason, "NULL" where the table has none
kvm_vmx_exit_handlers(exit_reason) ==
  CASE exit_reason = EXIT_REASON_EXTERNAL_INTERRUPT -> "handle_external_interrupt"
    [] exit_reason = EXIT_REASON_CPUID              -> "handle_cpuid"
    [] exit_reason = EXIT_REASON_IO_INSTRUCTION     -> "handle_io"
    [] exit_reason = EXIT_REASON_MSR_READ           -> "handle_rdmsr"
    [] exit_reason = EXIT_REASON_MSR_WRITE          -> "handle_wrmsr"
    [] exit_reason = EXIT_REASON_EPT_VIOLATION      -> "handle_ept_violation"
    [] exit_reason = EXIT_REASON_PREEMPTION_TIMER   -> "handle_preemption_timer"
    [] exit_reason = EXIT_REASON_APIC_ACCESS        -> "handle_apic_access"
    [] exit_reason = EXIT_REASON_PENDING_INTERRUPT  -> "handle_interrupt_window"
    [] exit_reason = EXIT_REASON_CR_ACCESS          -> "handle_cr"
    [] exit_reason = EXIT_REASON_DR_ACCESS          -> "handle_dr"
    [] exit_reason = EXIT_REASON_TASK_SWITCH        -> "handle_task_switch"
    [] OTHER                                        -> "NULL"

\* ARRAY_SIZE(kvm_vmx_exit_handlers): the last designated index, plus one
kvm_vmx_max_exit_handlers == EXIT_REASON_PREEMPTION_TIMER + 1

(***************************************************************************)
(* The register ioctls and KVM_SET_CPUID2.  A struct kvm_regs is a record  *)
(* with a field for each of the 16 registers, rip and rflags.              *)
(***************************************************************************)
kvm_get_regs(v) ==
  [ rax |-> v.regs["rax"], rcx |-> v.regs["rcx"], rdx |-> v.regs["rdx"], rbx |-> v.regs["rbx"],
    rsp |-> v.regs["rsp"], rbp |-> v.regs["rbp"], rsi |-> v.regs["rsi"], rdi |-> v.regs["rdi"],
    r8  |-> v.regs["r8"],  r9  |-> v.regs["r9"],  r10 |-> v.regs["r10"], r11 |-> v.regs["r11"],
    r12 |-> v.regs["r12"], r13 |-> v.regs["r13"], r14 |-> v.regs["r14"], r15 |-> v.regs["r15"],
    rip |-> v.regs["rip"], rflags |-> v.rflags ]

\* kvm_set_regs without the store of rflags
kvm_set_regs_without_rflags(v, kvm_regs) ==
  [v EXCEPT !.regs = [r \in RegNames |-> kvm_regs[r]]]

kvm_set_regs(v, kvm_regs) ==
  [v EXCEPT
     !.regs = [ rax |-> kvm_regs.rax, rcx |-> kvm_regs.rcx, rdx |-> kvm_regs.rdx,
                rbx |-> kvm_regs.rbx, rsp |-> kvm_regs.rsp, rbp |-> kvm_regs.rbp,
                rsi |-> kvm_regs.rsi, rdi |-> kvm_regs.rdi, r8  |-> kvm_regs.r8,
                r9  |-> kvm_regs.r9,  r10 |-> kvm_regs.r10, r11 |-> kvm_regs.r11,
                r12 |-> kvm_regs.r12, r13 |-> kvm_regs.r13, r14 |-> kvm_regs.r14,
                r15 |-> kvm_regs.r15, rip |-> kvm_regs.rip ],
     !.rflags = kvm_regs.rflags]

\* kvm_set_cpuid2; entries is what copyin brings, nent entries
kvm_set_cpuid2(v, entries) ==
  [v EXCEPT !.cpuid_count = Len(entries), !.cpuids = entries]

(***************************************************************************)
(* kvm_run, the world switch, in its two halves: up to the entry into the  *)
(* guest, and from the VM exit on.  What the guest did is the exit record  *)
(* x: its registers, flags and cr2 at the exit and the exit fields of the  *)
(* control structure.                                                      *)
(***************************************************************************)
\* cmpl $0, launched ... jne 1f; VMLAUNCH; jmp 2f; 1: VMRESUME: the instruction executed
EntryInstruction(v) == IF v.launched = 0 THEN "VMLAUNCH" ELSE "VMRESUME"

\* the launch state of the current control structure after the instruction: VMLAUNCH enters
\* the guest only from the clear state and VMRESUME only from the launched state; the
\* other two combinations fail and leave the state as it is
VmEntry(launch_state, instruction) ==
  IF instruction = "VMLAUNCH" /\ launch_state = "clear" THEN "launched" ELSE launch_state

\* kvm_run up to and with VMLAUNCH/VMRESUME: the control structure
kvm_run_entry(v, c) ==
  [c EXCEPT !.GUEST_RFLAGS = v.rflags,
            !.GUEST_RSP = v.regs["rsp"],
            !.GUEST_RIP = v.regs["rip"],
            !.launch_state = VmEntry(@, EntryInstruction(v))]

\* kvm_run from _vmexit_handler on with the assignment vcpu->__launched = 1 made
kvm_run_exit_sets_launched(v, c, x) ==
  LET c1 == [c EXCEPT !.GUEST_RFLAGS = x.rflags,
                      !.GUEST_RSP = x.regs["rsp"],
                      !.GUEST_RIP = x.regs["rip"],
                      !.VM_ENTRY_INTR_INFO_FIELD = @ \ INTR_INFO_VALID_MASK]
      v1 == [v EXCEPT !.regs = [r \in RegNames |->
                                  IF r \in {"rsp", "rip"} THEN v.regs[r] ELSE x.regs[r]],
                      !.cr2 = x.cr2,
                      !.launched = 1]
  IN  [vcpu |-> [v1 EXCEPT !.rflags = c1.GUEST_RFLAGS,
                           !.regs["rsp"] = c1.GUEST_RSP,
                           !.regs["rip"] = c1.GUEST_RIP],
       vmcs |-> c1]

\* kvm_run from _vmexit_handler on: the vcpu and the control structure
kvm_run_exit(v, c, x) ==
  LET c1 == [c EXCEPT !.GUEST_RFLAGS = x.rflags,
                      !.GUEST_RSP = x.regs["rsp"],
                      !.GUEST_RIP = x.regs["rip"],
                      !.VM_ENTRY_INTR_INFO_FIELD = @ \ INTR_INFO_VALID_MASK]
      v1 == [v EXCEPT !.regs = [r \in RegNames |->
                                  IF r \in {"rsp", "rip"} THEN v.regs[r] ELSE x.regs[r]],
                      !.cr2 = x.cr2]
  IN  [vcpu |-> [v1 EXCEPT !.rflags = c1.GUEST_RFLAGS,
                           !.regs["rsp"] = c1.GUEST_RSP,
                           !.regs["rip"] = c1.GUEST_RIP],
       vmcs |-> c1]

\* the dispatch with continue where the table has no handler
Dispatch_unhandled_continues(v, c, exit_reason, loaded, x) ==
  LET h == IF Lt(exit_reason, FromNat(kvm_vmx_max_exit_handlers))
           THEN kvm_vmx_exit_handlers(ToNat(exit_reason)) ELSE "NULL"
  IN  CASE h = "handle_external_interrupt" -> handle_external_interrupt(v, c, loaded, x.signal)
        [] h = "handle_cpuid"              -> handle_cpuid(v, c, x.cpuid)
        [] h = "handle_io"                 -> handle_io(v, c)
        [] h = "handle_rdmsr"              -> handle_rdmsr(v, c, x.msr)
        [] h = "handle_wrmsr"              -> handle_wrmsr(v, c)
        [] h = "handle_ept_violation"      -> handle_ept_violation(v, c)
        [] h = "handle_preemption_timer"   -> handle_preemption_timer(v, c)
        [] h = "handle_apic_access"        -> handle_apic_access(v, c)
        [] h = "handle_interrupt_window"   -> handle_interrupt_window(v, c)
        [] h = "handle_cr"                 -> handle_cr(v, c)
        [] h = "handle_dr"                 -> handle_dr(v, c)
        [] h = "handle_task_switch"        -> handle_task_switch(v, c)
        [] OTHER                           -> [vcpu |-> v, vmcs |-> c, cont |-> 1]

\* the call through kvm_vmx_exit_handlers[exit_reason], or cont = 0 where there is none
Dispatch(v, c, exit_reason, loaded, x) ==
  LET h == IF Lt(exit_reason, FromNat(kvm_vmx_max_exit_handlers))
           THEN kvm_vmx_exit_handlers(ToNat(exit_reason)) ELSE "NULL"
  IN  CASE h = "handle_external_interrupt" -> handle_external_interrupt(v, c, loaded, x.signal)
        [] h = "handle_cpuid"              -> handle_cpuid(v, c, x.cpuid)
        [] h = "handle_io"                 -> handle_io(v, c)
        [] h = "handle_rdmsr"              -> handle_rdmsr(v, c, x.msr)
        [] h = "handle_wrmsr"              -> handle_wrmsr(v, c)
        [] h = "handle_ept_violation"      -> handle_ept_violation(v, c)
        [] h = "handle_preemption_timer"   -> handle_preemption_timer(v, c)
        [] h = "handle_apic_access"        -> handle_apic_access(v, c)
        [] h = "handle_interrupt_window"   -> handle_interrupt_window(v, c)
        [] h = "handle_cr"                 -> handle_cr(v, c)
        [] h = "handle_dr"                 -> handle_dr(v, c)
        [] h = "handle_task_switch"        -> handle_task_switch(v, c)
        [] OTHER                           -> [vcpu |-> v, vmcs |-> c, cont |-> 0]

(***************************************************************************)
(* The thread inside kvm_run_wrapper and the thread inside kvm_irq_line.   *)
(* pending_irq is read and written by both without a common lock, so every *)
(* load and every store of it is a step of its own.                        *)
(***************************************************************************)
\* the bound of the run loop
MaxCont == 1000

NoExit == [reason |-> {}]

RunIdle == [pc |-> "idle", maxcont |-> 0, cont |-> 1, exit_reason |-> {}, error |-> {},
            intr_info |-> {}, i |-> 0, tmp |-> {}, switches |-> 0, x |-> NoExit,
            injected |-> {}, n |-> 0]

IrqIdle == [pc |-> "idle", line |-> 0, level |-> 0, tmp |-> {}, ret |-> 0, n |-> 0]

\* what is remembered of the KVM_IRQ_LINE calls: the level each line was last called with
\* (-1: never), the lines whose pending bit the run loop cleared since their last call, and
\* both as the call in progress (or the last one) found them for its line
NoIrqHist == [last |-> [l \in 0..(IRQ_MAX - 1) |-> -1], consumed |-> {},
              prev |-> -1, wasConsumed |-> FALSE]

NoCall == [op |-> "none"]

\* the state after the handle was opened and KVM_CREATE_VM returned
InitCreated ==
  LET r == create_vm(<<>>)
  IN  /\ vcpu = r.vcpu
      /\ vmcs = r.vmcs
      /\ heap = r.heap
      /\ eptLog = r.log
      /\ ioctl_lock = FALSE
      /\ irq_lock = FALSE
      /\ run = RunIdle
      /\ irq = IrqIdle
      /\ irqHist = NoIrqHist
      /\ ret = 0
      /\ out = <<>>
      /\ call = [op |-> "KVM_CREATE_VM"]
      /\ ncalls = 0
      /\ calls = {}
      /\ installed = {}
      /\ diag = {}

\* case KVM_GET_REGS of kvm_dev_ioctl
KVM_GET_REGS ==
  /\ ~ioctl_lock
  /\ vcpu # NoVcpu
  /\ out' = kvm_get_regs(vcpu)
  /\ ret' = 0
  /\ call' = [op |-> "KVM_GET_REGS"]
  /\ ncalls' = ncalls + 1
  /\ UNCHANGED <<vcpu, vmcs, heap, ioctl_lock, irq_lock, run, irq, irqHist, eptLog, calls,
                 installed, diag>>

\* case KVM_SET_REGS of kvm_dev_ioctl
KVM_SET_REGS(kvm_regs) ==
  /\ ~ioctl_lock
  /\ vcpu # NoVcpu
  /\ vcpu' = kvm_set_regs(vcpu, kvm_regs)
  /\ ret' = 0
  /\ call' = [op |-> "KVM_SET_REGS", kvm_regs |-> kvm_regs]
  /\ ncalls' = ncalls + 1
  /\ UNCHANGED <<vmcs, heap, ioctl_lock, irq_lock, run, irq, irqHist, out, eptLog, calls,
                 installed, diag>>

\* case KVM_SET_CPUID2 of kvm_dev_ioctl
KVM_SET_CPUID2(entries) ==
  /\ ~ioctl_lock
  /\ vcpu # NoVcpu
  /\ vcpu' = kvm_set_cpuid2(vcpu, entries)
  /\ ret' = 0
  /\ call' = [op |-> "KVM_SET_CPUID2", entries |-> entries]
  /\ ncalls' = ncalls + 1
  /\ UNCHANGED <<vmcs, heap, ioctl_lock, irq_lock, run, irq, irqHist, out, eptLog, calls,
                 installed, diag>>

\* kvm_run_wrapper before its loop, without the reset of pending_io
kvm_run_wrapper_begin_keeps_pending(v) ==
  LET size == v.kvm_vcpu.io.size * v.kvm_vcpu.io.count
      v1   == IF v.pending_io # 0
              THEN [v EXCEPT !.regs["rax"] = MemcpyLow({}, v.pio_data,
                                                       IF size < 8 THEN size ELSE 8)]
              ELSE v
  IN  [v1 EXCEPT !.kvm_vcpu.exit_reason = 0]

\* kvm_run_wrapper before its loop: the buffered value of a pending read-direction port
\* access goes to rax, and the shared exit reason is zeroed
kvm_run_wrapper_begin(v) ==
  LET size == v.kvm_vcpu.io.size * v.kvm_vcpu.io.count
      v1   == IF v.pending_io # 0
              THEN [v EXCEPT !.regs["rax"] = MemcpyLow({}, v.pio_data,
                                                       IF size < 8 THEN size ELSE 8),
                             !.pending_io = 0]
              ELSE v
  IN  [v1 EXCEPT !.kvm_vcpu.exit_reason = 0]

\* case KVM_RUN of kvm_dev_ioctl, up to the loop of kvm_run_wrapper
KVM_RUN ==
  /\ ~ioctl_lock
  /\ vcpu # NoVcpu
  /\ run.pc = "idle"
  /\ ioctl_lock' = TRUE
  /\ vcpu' = kvm_run_wrapper_begin(vcpu)
  /\ run' = [RunIdle EXCEPT !.pc = "while", !.n = run.n + 1]
  /\ call' = [op |-> "KVM_RUN"]
  /\ ncalls' = ncalls + 1
  /\ diag' = {}
  /\ UNCHANGED <<vmcs, heap, irq_lock, irq, irqHist, ret, out, eptLog, calls, installed>>

\* while (cont && (maxcont++) < 1000), and the test that opens the injection scan
RunWhile ==
  /\ run.pc = "while"
  /\ run' = IF run.cont # 0
            THEN [run EXCEPT
                    !.maxcont = @ + 1,
                    !.intr_info = IF run.maxcont < MaxCont THEN {} ELSE @,
                    !.i = 0,
                    !.pc = IF run.maxcont < MaxCont
                           THEN IF run.exit_reason = FromNat(EXIT_REASON_PENDING_INTERRUPT)
                                THEN "scan" ELSE "load"
                           ELSE "after"]
            ELSE [run EXCEPT !.pc = "after"]
  /\ UNCHANGED <<vcpu, vmcs, heap, ioctl_lock, irq_lock, irq, irqHist, ret, out, call, ncalls,
                 eptLog, calls, installed, diag>>

\* one turn of for (i = 0; i < IRQ_MAX; i++): the test of pending bit i
RunScan ==
  /\ run.pc = "scan"
  /\ run' = IF run.i \in vcpu.pending_irq
            THEN [run EXCEPT
                    !.intr_info = INTR_INFO_VALID_MASK \cup INTR_TYPE_EXT_INTR
                                    \cup FromNat(run.i + (IF vcpu.paging # 0 THEN 48 ELSE 8)),
                    !.pc = "clear"]
            ELSE [run EXCEPT !.i = @ + 1,
                             !.pc = IF run.i + 1 < IRQ_MAX THEN "scan" ELSE "load"]
  /\ UNCHANGED <<vcpu, vmcs, heap, ioctl_lock, irq_lock, irq, irqHist, ret, out, call, ncalls,
                 eptLog, calls, installed, diag>>

\* vcpu->pending_irq &= ~(1<<i): the load
RunClear ==
  /\ run.pc = "clear"
  /\ run' = [run EXCEPT !.tmp = vcpu.pending_irq, !.pc = "store"]
  /\ UNCHANGED <<vcpu, vmcs, heap, ioctl_lock, irq_lock, irq, irqHist, ret, out, call, ncalls,
                 eptLog, calls, installed, diag>>

\* vcpu->pending_irq &= ~(1<<i): the store
RunStore ==
  /\ run.pc = "store"
  /\ vcpu' = [vcpu EXCEPT !.pending_irq = run.tmp \ {run.i}]
  /\ run' = [run EXCEPT !.pc = "load", !.injected = @ \cup {run.i}]
  /\ irqHist' = [irqHist EXCEPT !.consumed = @ \cup {run.i}]
  /\ UNCHANGED <<vmcs, heap, ioctl_lock, irq_lock, irq, ret, out, call, ncalls,
                 eptLog, calls, installed, diag>>

\* the write of the interrupt-window request bit without the else branch
RequestWindow_set_only(pending_irq, c) ==
  IF pending_irq # {}
  THEN [c EXCEPT !.CPU_BASED_VM_EXEC_CONTROL = @ \cup CPU_BASED_VIRTUAL_INTR_PENDING]
  ELSE c

\* if (vcpu->pending_irq) set interrupt pending, else clear interrupt pending
RequestWindow(pending_irq, c) ==
  IF pending_irq # {}
  THEN [c EXCEPT !.CPU_BASED_VM_EXEC_CONTROL = @ \cup CPU_BASED_VIRTUAL_INTR_PENDING]
  ELSE [c EXCEPT !.CPU_BASED_VM_EXEC_CONTROL = @ \ CPU_BASED_VIRTUAL_INTR_PENDING]

\* LOAD_VMCS, the writes of the interruption field and of the interrupt-window bit, and
\* kvm_run up to the entry into the guest
RunEntry ==
  /\ run.pc = "load"
  /\ ~vcpu.spin_locked
  /\ LET c1 == IF run.intr_info # {}
               THEN [vmcs EXCEPT !.VM_ENTRY_INTR_INFO_FIELD = Trunc(run.intr_info, 32)]
               ELSE vmcs
         c2 == RequestWindow(vcpu.pending_irq, c1)
     IN  /\ vmcs' = kvm_run_entry(vcpu, c2)
         /\ vcpu' = LOAD_VMCS(vcpu)
  /\ run' = [run EXCEPT !.pc = "guest", !.switches = @ + 1]
  /\ UNCHANGED <<heap, ioctl_lock, irq_lock, irq, irqHist, ret, out, call, ncalls,
                 eptLog, calls, installed, diag>>

\* the end of the loop body without the test of the instruction error
AfterSwitch_no_break(error) == "while"

\* if (error != 0) break; at the end of the loop body: where the run thread goes next
AfterSwitch(error) == IF error # {} THEN "after" ELSE "while"

\* vmcs_clear(vcpu->vmcs) of RELEASE_VMCS: the launch state of the control structure
VMCLEAR(c) == [c EXCEPT !.launch_state = "clear"]

\* RELEASE_VMCS and if (error != 0) break, after a handler gave d
RunFinish(d) ==
  /\ vcpu' = RELEASE_VMCS(d.vcpu)
  /\ vmcs' = VMCLEAR(d.vmcs)

\* the VM exit x: the rest of kvm_run, the capture of the exit record, and the handler;
\* the handler of an external interrupt with exit qualification 0 only gets as far as the
\* load of its pending_irq |= 1
RunExit(x) ==
  /\ run.pc = "guest"
  /\ LET r  == kvm_run_exit(vcpu, vmcs, x)
         v1 == [r.vcpu EXCEPT !.exit_instruction_len = x.instruction_len,
                              !.exit_qualification = x.qualification,
                              !.phys = x.phys]
         d  == Dispatch(v1, r.vmcs, x.reason, vcpu.pending_irq, x)
     IN  IF x.reason = FromNat(EXIT_REASON_EXTERNAL_INTERRUPT) /\ x.qualification = {}
         THEN /\ vcpu' = v1
              /\ vmcs' = r.vmcs
              /\ run' = [run EXCEPT !.pc = "ext_store", !.tmp = vcpu.pending_irq,
                                    !.exit_reason = x.reason, !.error = x.error, !.x = x]
         ELSE /\ RunFinish(d)
              /\ run' = [run EXCEPT !.pc = AfterSwitch(x.error),
                                    !.cont = d.cont,
                                    !.exit_reason = x.reason, !.error = x.error, !.x = x]
  /\ UNCHANGED <<heap, ioctl_lock, irq_lock, irq, irqHist, ret, out, call, ncalls,
                 eptLog, calls, installed, diag>>

\* handle_external_interrupt from the store of its pending_irq |= 1 on
RunExtStore ==
  /\ run.pc = "ext_store"
  /\ LET d == Dispatch(vcpu, vmcs, run.exit_reason, run.tmp, run.x)
     IN  /\ RunFinish(d)
         /\ run' = [run EXCEPT !.pc = AfterSwitch(run.error),
                               !.cont = d.cont]
  /\ UNCHANGED <<heap, ioctl_lock, irq_lock, irq, irqHist, ret, out, call, ncalls,
                 eptLog, calls, installed, diag>>

\* the end of kvm_run_wrapper with a status of its own for a run the bound ended
kvm_run_wrapper_end_timeout_status(cont) ==
  [diag |-> IF cont = 1 THEN {"EXIT FROM TIMEOUT"} ELSE {}, ret |-> IF cont = 1 THEN 60 ELSE 0]

\* kvm_run_wrapper after its loop: what it prints and the value it returns
kvm_run_wrapper_end(cont) ==
  [diag |-> IF cont = 1 THEN {"EXIT FROM TIMEOUT"} ELSE {}, ret |-> 0]

\* kvm_run_wrapper after its loop, and the return of the ioctl
RunReturn ==
  /\ run.pc = "after"
  /\ diag' = kvm_run_wrapper_end(run.cont).diag
  /\ ret' = kvm_run_wrapper_end(run.cont).ret
  /\ ioctl_lock' = FALSE
  /\ run' = [run EXCEPT !.pc = "idle"]
  /\ UNCHANGED <<vcpu, vmcs, heap, irq_lock, irq, irqHist, out, call, ncalls,
                 eptLog, calls, installed>>

\* the test of kvm_irq_line without the stored level: every assert counts as an edge
IrqRising_any_assert(v, line, level) ==
  /\ line < IRQ_MAX
  /\ level = 1

\* the test of kvm_irq_line for a rising edge
IrqRising(v, line, level) ==
  /\ line < IRQ_MAX
  /\ v.irq_level[line] = 0
  /\ level = 1

\* kvm_irq_line; loaded is the value its |= read from pending_irq
kvm_irq_line(v, line, level, loaded) ==
  IF line < IRQ_MAX
  THEN [v EXCEPT !.pending_irq = IF IrqRising(v, line, level) THEN loaded \cup {line} ELSE @,
                 !.irq_level[line] = level]
  ELSE v

\* case KVM_IRQ_LINE of kvm_dev_ioctl: the whole call, or on a rising edge the call up to
\* the load of its pending_irq |= 1 << irq
KVM_IRQ_LINE(line, level) ==
  /\ ~irq_lock
  /\ vcpu # NoVcpu
  /\ irq.pc = "idle"
  /\ irqHist' = IF line < IRQ_MAX
                THEN [last        |-> [irqHist.last EXCEPT ![line] = level],
                      consumed    |-> irqHist.consumed \ {line},
                      prev        |-> irqHist.last[line],
                      wasConsumed |-> line \in irqHist.consumed]
                ELSE [irqHist EXCEPT !.prev = -1, !.wasConsumed = FALSE]
  /\ IF IrqRising(vcpu, line, level)
     THEN /\ irq' = [pc |-> "store", line |-> line, level |-> level,
                     tmp |-> vcpu.pending_irq, ret |-> irq.ret, n |-> irq.n + 1]
          /\ irq_lock' = TRUE
          /\ vcpu' = vcpu
     ELSE /\ irq' = [pc |-> "idle", line |-> line, level |-> level,
                     tmp |-> {}, ret |-> 0, n |-> irq.n + 1]
          /\ irq_lock' = irq_lock
          /\ vcpu' = kvm_irq_line(vcpu, line, level, vcpu.pending_irq)
  /\ UNCHANGED <<vmcs, heap, ioctl_lock, run, ret, out, call, ncalls,
                 eptLog, calls, installed, diag>>

\* kvm_irq_line from the store of its pending_irq |= 1 << irq on, and the return of the ioctl
IrqStore ==
  /\ irq.pc = "store"
  /\ vcpu' = kvm_irq_line(vcpu, irq.line, irq.level, irq.tmp)
  /\ irq' = [irq EXCEPT !.pc = "idle", !.ret = 0, !.tmp = {}]
  /\ irq_lock' = FALSE
  /\ UNCHANGED <<vmcs, heap, ioctl_lock, run, irqHist, ret, out, call, ncalls,
                 eptLog, calls, installed, diag>>

(***************************************************************************)
(* The page-table specification: memory regions are installed, at most     *)
(* MaxCalls of them.                                                       *)
(***************************************************************************)
\* guest physical bases: pages 1, 2 and 3, an address inside page 1, a second page table,
\* a second page directory, a second level-3 table, page 1 with bit 48 set, the APIC page
Addr_1000 == Hex(<<1, 0, 0, 0>>)
Addr_2000 == Hex(<<2, 0, 0, 0>>)
Addr_1800 == Hex(<<1, 8, 0, 0>>)
Addr_3000 == Hex(<<3, 0, 0, 0>>)
Addr_200000 == Hex(<<2, 0, 0, 0, 0, 0>>)
Addr_40000000 == Hex(<<4, 0, 0, 0, 0, 0, 0, 0>>)
Addr_8000000000 == Hex(<<8, 0, 0, 0, 0, 0, 0, 0, 0, 0>>)
Addr_1000000001000 == Hex(<<1, 0, 0, 0, 0, 0, 0, 0, 0, 1, 0, 0, 0>>)

\* caller addresses: one page-aligned, one not
User_aligned == Hex(<<7, 15, 0, 0, 0, 0>>)
User_unaligned == Hex(<<7, 15, 0, 0, 0, 8>>)

\* frames the pinning service hands out
HostA == Hex(<<5, 0, 0, 0>>)
HostB == Hex(<<1, 2, 3, 4, 5, 6, 0, 0, 0>>)

Region(g, size, u) == [guest_phys_addr |-> g, memory_size |-> size, userspace_addr |-> u]

\* the pages of the caller's range, counted from the page of its first byte
SpannedPages(mr) ==
  IF mr.memory_size = 0 THEN {}
  ELSE 0..((ToNat(mr.userspace_addr \cap PageOffsetBits) + mr.memory_size - 1) \div PAGE_SIZE)

\* a request: the region, what prepare() returns, and the frame of each page of the caller's
\* range (<<first, second>>; {} is a page the pinning service cannot resolve)
Request(mr, prepare, fs) ==
  [mr |-> mr, prepare |-> prepare, frames |-> [n \in SpannedPages(mr) |-> fs[n + 1]]]

R_1000_2p == Region(Addr_1000, 2 * PAGE_SIZE, User_aligned)

Requests ==
  { Request(R_1000_2p, 0, <<HostA, HostB>>),
    Request(R_1000_2p, 0, <<HostB, HostA>>),
    Request(R_1000_2p, 0, <<HostA, {}>>),
    Request(R_1000_2p, 1, <<HostA, HostB>>),
    Request(Region(Addr_2000, PAGE_SIZE, User_aligned), 0, <<HostB>>),
    Request(Region(Addr_1800, PAGE_SIZE, User_aligned), 0, <<HostA>>),
    Request(Region(Addr_3000, PAGE_SIZE + (PAGE_SIZE \div 2), User_aligned), 0, <<HostA, HostB>>),
    Request(Region(Addr_1000, PAGE_SIZE, User_unaligned), 0, <<HostB, HostA>>),
    Request(Region(Addr_200000, PAGE_SIZE, User_aligned), 0, <<HostA>>),
    Request(Region(Addr_8000000000, PAGE_SIZE, User_aligned), 0, <<HostA>>),
    Request(Region(Addr_1000000001000, PAGE_SIZE, User_aligned), 0, <<HostB>>),
    Request(Region(APIC_BASE, PAGE_SIZE, User_aligned), 0, <<HostA>>) }

\* case KVM_SET_USER_MEMORY_REGION of kvm_dev_ioctl
KVM_SET_USER_MEMORY_REGION(mr, prepare, frames) ==
  /\ ~ioctl_lock
  /\ vcpu # NoVcpu
  /\ LET r == kvm_set_user_memory_region(heap, vcpu, mr, prepare, frames)
     IN  /\ heap' = r.heap
         /\ ret' = r.ret
         /\ eptLog' = eptLog \o r.log
         /\ call' = [op |-> "KVM_SET_USER_MEMORY_REGION", mr |-> mr, prepare |-> prepare,
                     frames |-> frames]
         /\ calls' = calls \cup {mr}
         /\ installed' = IF r.ret = 0 THEN installed \cup {mr} ELSE installed
  /\ ncalls' = ncalls + 1
  /\ UNCHANGED <<vcpu, vmcs, ioctl_lock, irq_lock, run, irq, irqHist, out, diag>>

NextEpt ==
  /\ ncalls < MaxCalls
  /\ \E rq \in Requests : KVM_SET_USER_MEMORY_REGION(rq.mr, rq.prepare, rq.frames)

SpecEpt == InitCreated /\ [][NextEpt]_vars

(***************************************************************************)
(* Claims about the page-table manager and KVM_SET_USER_MEMORY_REGION,     *)
(* checked under SpecEpt.                                                  *)
(***************************************************************************)
\* the page of a guest physical address: the four 9-bit indices, address bits 12..47
PageKey(a) == {b \in a : b >= 12 /\ b < 48}

\* guest physical addresses translate is asked about
Probes ==
  LET bases == { {}, Addr_1000, Addr_1800, Addr_2000, Addr_3000, Hex(<<4, 0, 0, 0>>),
                 Hex(<<5, 0, 0, 0>>), Addr_200000, Hex(<<2, 0, 1, 0, 0, 0>>),
                 Addr_40000000, Hex(<<12, 0, 0, 0, 0, 0, 0, 0>>), Addr_8000000000,
                 Addr_1000000001000, APIC_BASE, Hex(<<15, 14, 14, 0, 1, 0, 0, 0>>),
                 Hex(<<15, 14, 13, 15, 15, 0, 0, 0>>) }
  IN  bases \cup {a \cup Hex(<<15, 15, 8>>) : a \in {Addr_1000, Addr_2000, Addr_3000, APIC_BASE}}

\* the ept_add_page calls made for the page of a
AddsFor(a) == {i \in 1..Len(eptLog) : PageKey(eptLog[i].va) = PageKey(a)}

\* C1: translate(A) is the host address of the most recent ept_add_page call for A's page
\* (the page the four indices select), with its low 12 bits cleared, whatever other pages
\* were added in between.
C1_LastWriteWins ==
  \A a \in Probes :
     AddsFor(a) # {} =>
        ept_translate(heap, vcpu, a) = eptLog[MaxOf(AddsFor(a))].pa \ PageOffsetBits

\* C1: a page was added, another page was added, the first page was added again with
\* another host address, and translate gives the last one.
C1_Witness ==
  \E i, j, k \in 1..Len(eptLog) :
     /\ i < j /\ j < k
     /\ PageKey(eptLog[i].va) = PageKey(eptLog[k].va)
     /\ PageKey(eptLog[j].va) # PageKey(eptLog[k].va)
     /\ eptLog[i].pa \ PageOffsetBits # eptLog[k].pa \ PageOffsetBits
     /\ k = MaxOf(AddsFor(eptLog[k].va))
     /\ ept_translate(heap, vcpu, eptLog[i].va) = eptLog[k].pa \ PageOffsetBits
     /\ ept_translate(heap, vcpu, eptLog[j].va) = eptLog[MaxOf(AddsFor(eptLog[j].va))].pa \ PageOffsetBits

\* how many levels of the walk for a are allocated: 0 (no level-3 table) to 3 (a leaf table)
WalkDepth(h, v, a) ==
  LET pdpt == Load(h, v.pml4, PAGE_OFFSET + EptIndex(a, 39))
      pd   == Load(h, pdpt, PAGE_OFFSET + EptIndex(a, 30))
      pt   == Load(h, pd, PAGE_OFFSET + EptIndex(a, 21))
  IN  IF pdpt = NULL THEN 0 ELSE IF pd = NULL THEN 1 ELSE IF pt = NULL THEN 2 ELSE 3

\* C2: translate is 0 (absent) for every address whose page was never passed to
\* ept_add_page, at whatever level the walk stops, and no load goes through a null pointer.
C2_UnmappedAbsent ==
  \A a \in Probes :
     LET t == ept_translate(heap, vcpu, a)
     IN  /\ 64 \notin t
         /\ AddsFor(a) = {} => t = {}

\* C2: never-added pages whose walks stop at each of the four places exist together.
C2_Witness ==
  /\ installed # {}
  /\ \A d \in 0..3 :
       \E a \in Probes :
          /\ AddsFor(a) = {}
          /\ WalkDepth(heap, vcpu, a) = d
          /\ ept_translate(heap, vcpu, a) = {}

\* the last ioctl was a KVM_SET_USER_MEMORY_REGION that returned 0
InstallSucceeded == call.op = "KVM_SET_USER_MEMORY_REGION" /\ ret = 0

\* the page offsets k * 4096 below the size of a region
PageOffsets(mr) == {k * PAGE_SIZE : k \in {n \in 0..3 : n * PAGE_SIZE < mr.memory_size}}

\* a lies in [guest base, guest base + size)
InRegion(a, mr) ==
  /\ ~Lt(a, mr.guest_phys_addr)
  /\ Lt(a, Add64(mr.guest_phys_addr, FromNat(mr.memory_size)))

\* C3 as stated: after a successful install translate(G + k*4096) is the address the pinning
\* service reported for the k-th page, and translate is absent outside every installed
\* region except on the APIC page.
C3_AsStated ==
  /\ InstallSucceeded =>
       \A off \in PageOffsets(call.mr) :
          ept_translate(heap, vcpu, Add64(call.mr.guest_phys_addr, FromNat(off)))
            = getPhysicalSegment(call.frames, call.mr.userspace_addr, off)
  /\ \A a \in Probes :
       ((\A mr \in installed : ~InRegion(a, mr)) /\ Shr(a, 12) # Shr(APIC_BASE, 12))
          => ept_translate(heap, vcpu, a) = {}

\* C3, amended: after a successful install translate(G + k*4096) is the address the pinning
\* service reported for the k-th page with its low 12 bits cleared; and translate is absent
\* for every address whose page (bits 12..47) is neither the APIC page nor the page of
\* G' + k*4096, k*4096 < S', of some install call made, successful or not.
C3_InstalledPages ==
  /\ InstallSucceeded =>
       \A off \in PageOffsets(call.mr) :
          ept_translate(heap, vcpu, Add64(call.mr.guest_phys_addr, FromNat(off)))
            = getPhysicalSegment(call.frames, call.mr.userspace_addr, off) \ PageOffsetBits
  /\ \A a \in Probes :
       ept_translate(heap, vcpu, a) # {} =>
          \/ PageKey(a) = PageKey(APIC_BASE)
          \/ \E mr \in calls : \E off \in PageOffsets(mr) :
                PageKey(a) = PageKey(Add64(mr.guest_phys_addr, FromNat(off)))

\* C3: the two-page region [0x1000, 0x3000) was installed on frames A and B.
C3_Witness ==
  /\ InstallSucceeded
  /\ call.mr = R_1000_2p
  /\ ept_translate(heap, vcpu, Addr_1000) = call.frames[0]
  /\ ept_translate(heap, vcpu, Addr_2000) = call.frames[1]
  /\ call.frames[0] # call.frames[1]
  /\ ept_translate(heap, vcpu, Hex(<<4, 0, 0, 0>>)) = {}

\* C4 as stated: an install whose caller address is not page-aligned returns EINVAL and
\* leaves the page table as it was.
C4_UnalignedRejected ==
  [][ (/\ ncalls' = ncalls + 1
       /\ call'.op = "KVM_SET_USER_MEMORY_REGION"
       /\ call'.mr.userspace_addr \cap PageOffsetBits # {})
      => (ret' = EINVAL /\ heap' = heap) ]_vars

(***************************************************************************)
(* The guests: what a VM exit finds.                                       *)
(***************************************************************************)
AllOnes32 == 0..31

\* the registers of a guest at an exit
GuestRegs(rax, rcx) ==
  [r \in RegNames |->
     CASE r = "rax" -> rax
       [] r = "rcx" -> rcx
       [] r = "rbx" -> Hex(<<11, 11>>)
       [] r = "rdx" -> Hex(<<13, 13>>)
       [] r = "rsp" -> Hex(<<8, 0, 0, 0>>)
       [] r = "rip" -> Hex(<<7, 12, 0, 0>>)
       [] OTHER     -> {}]

\* what the cpuid instruction of the host gives
HwCpuid == [eax |-> Hex(<<3, 0, 6, 10, 9>>), ebx |-> Hex(<<1, 0, 0, 8, 0, 0>>),
            ecx |-> AllOnes32, edx |-> AllOnes32]

\* an exit with reason number reason: a two-byte instruction, no error, no signal
Exit(reason, qualification, regs) ==
  [reason |-> FromNat(reason), qualification |-> qualification,
   instruction_len |-> FromNat(2), phys |-> {}, error |-> {}, regs |-> regs,
   rflags |-> {1}, cr2 |-> {}, signal |-> FALSE, cpuid |-> HwCpuid,
   msr |-> Hex(<<1, 0, 0, 0, 0, 0, 0, 0, 5>>)]

G0 == GuestRegs(FromNat(1), {})

ExtInt          == Exit(EXIT_REASON_EXTERNAL_INTERRUPT, {}, G0)
ExtIntSignal    == [ExtInt EXCEPT !.signal = TRUE]
ExtIntOther     == Exit(EXIT_REASON_EXTERNAL_INTERRUPT, FromNat(1), G0)
IntrWindow      == Exit(EXIT_REASON_PENDING_INTERRUPT, {}, G0)
Timer           == Exit(EXIT_REASON_PREEMPTION_TIMER, {}, G0)
Hlt             == Exit(EXIT_REASON_HLT, {}, G0)
\* a failed entry: VM-instruction error 7, and a reason with bit 31 set
EntryFailed     == [Exit(33, {}, G0) EXCEPT !.reason = @ \cup {31}, !.error = FromNat(7)]
\* out and in on port 0x3f8, one byte
IoOut           == Exit(EXIT_REASON_IO_INSTRUCTION, Hex(<<3, 15, 8, 0, 0, 0, 0>>), G0)
IoIn            == Exit(EXIT_REASON_IO_INSTRUCTION, Hex(<<3, 15, 8, 0, 0, 0, 8>>), G0)
\* mov to cr0 from rax with bit 31 set, mov to cr3 from rax
Cr0Paging       == Exit(EXIT_REASON_CR_ACCESS, {}, GuestRegs({0, 31}, {}))
Cr3Load         == Exit(EXIT_REASON_CR_ACCESS, FromNat(3), G0)

\* the exits of the interrupt specification: the handlers that touch the interrupt state
\* or end the loop, handlers that only emulate an instruction, and an exit without a handler
ExitsIrq ==
  { ExtInt, ExtIntSignal, ExtIntOther, IntrWindow, Timer, Hlt, EntryFailed, IoOut,
    Cr0Paging, Exit(EXIT_REASON_CPUID, {}, G0), Exit(EXIT_REASON_MSR_WRITE, {}, G0),
    Exit(EXIT_REASON_EPT_VIOLATION, {}, G0) }

\* the lines and levels KVM_IRQ_LINE is called with: line 16 is out of range
IrqLines == {0, 3, IRQ_MAX}
IrqLevels == {0, 1}

(***************************************************************************)
(* The interrupt specification: one thread runs the guest, for at most     *)
(* MaxIter world switches, while another calls KVM_IRQ_LINE.               *)
(***************************************************************************)
NextIrq ==
  \/ run.n < MaxRuns /\ KVM_RUN
  \/ RunWhile
  \/ RunScan
  \/ RunClear
  \/ RunStore
  \/ RunEntry
  \/ \E x \in ExitsIrq : (run.maxcont < MaxIter \/ x = Hlt) /\ RunExit(x)
  \/ RunExtStore
  \/ RunReturn
  \/ irq.n < MaxIrqCalls /\ \E line \in IrqLines, level \in IrqLevels : KVM_IRQ_LINE(line, level)
  \/ IrqStore

SpecIrq == InitCreated /\ [][NextIrq]_vars

\* C5: a KVM_IRQ_LINE call with level 1 on a line below 16 whose previous call also had
\* level 1 changes neither the pending bitmap nor the level array, whether or not the run
\* loop cleared the line's pending bit since the previous call.
C5_SecondAssertIdle ==
  [][ (\/ /\ irq'.n = irq.n + 1
          /\ irq'.line < IRQ_MAX /\ irq'.level = 1
          /\ irqHist.last[irq'.line] = 1
       \/ /\ irq.pc = "store" /\ irq'.pc = "idle"
          /\ irq.level = 1
          /\ irqHist.prev = 1)
      => /\ vcpu'.pending_irq = vcpu.pending_irq
         /\ vcpu'.irq_level = vcpu.irq_level ]_vars

\* C5: a second assert returned after the run loop had consumed the bit of the first.
C5_Witness ==
  /\ irq.pc = "idle" /\ irq.n >= 2
  /\ irq.line < IRQ_MAX /\ irq.level = 1
  /\ irqHist.prev = 1
  /\ irqHist.wasConsumed
  /\ irq.line \notin vcpu.pending_irq
  /\ vcpu.irq_level[irq.line] = 1

\* the step is the store of a KVM_IRQ_LINE call
IsIrqStore == irq.pc = "store" /\ irq'.pc = "idle"

\* C6 as stated: pending bit n goes from clear to set only in a KVM_IRQ_LINE call on line n
\* that takes the stored level of n from 0 to 1.
C6_AsStated ==
  [][ \A n \in 0..(IRQ_MAX - 1) :
        (n \notin vcpu.pending_irq /\ n \in vcpu'.pending_irq)
           => /\ IsIrqStore /\ irq.line = n
              /\ vcpu.irq_level[n] = 0 /\ vcpu'.irq_level[n] = 1 ]_vars

\* C6, amended: pending bit n goes from clear to set only (a) by the store of a
\* KVM_IRQ_LINE call that takes the stored level of its line from 0 to 1, which sets the
\* bit of its line and writes back every bit that was set when the call loaded the bitmap,
\* or (b), for bit 0, by the external-interrupt handler at an exit with qualification 0.
C6_SetOnlyByEdgeOrTimer ==
  [][ \A n \in 0..(IRQ_MAX - 1) :
        (n \notin vcpu.pending_irq /\ n \in vcpu'.pending_irq)
           => \/ /\ IsIrqStore
                 /\ vcpu.irq_level[irq.line] = 0 /\ vcpu'.irq_level[irq.line] = 1
                 /\ (n = irq.line \/ n \in irq.tmp)
              \/ /\ n = 0
                 /\ run.pc \in {"guest", "ext_store"} /\ run'.pc \in {"while", "after"}
                 /\ run'.x.reason = FromNat(EXIT_REASON_EXTERNAL_INTERRUPT)
                 /\ run'.x.qualification = {} ]_vars

\* C6: the external-interrupt handler set bit 0 of a bitmap no KVM_IRQ_LINE call on line 0
\* was ever made for.
C6_Witness ==
  /\ run.pc \in {"while", "after"}
  /\ run.x.reason = FromNat(EXIT_REASON_EXTERNAL_INTERRUPT)
  /\ run.x.qualification = {}
  /\ 0 \in vcpu.pending_irq
  /\ irqHist.last[0] = -1

(***************************************************************************)
(* The CPUID specification: override tables are installed and the guest    *)
(* executes cpuid.                                                         *)
(***************************************************************************)
\* an entry of the override table
CpuidEntry(function, index, eax, ebx, ecx, edx) ==
  [function |-> function, index |-> index, eax |-> eax, ebx |-> ebx, ecx |-> ecx, edx |-> edx]

\* override tables: none; function 1 with every bit set; function 1 twice, behind an entry
\* of function 4 index 1; function 0 only
CpuidTables ==
  { <<>>,
    <<CpuidEntry(FromNat(1), {}, AllOnes32, AllOnes32, AllOnes32, AllOnes32)>>,
    <<CpuidEntry(FromNat(4), FromNat(1), {5}, {6}, AllOnes32, AllOnes32),
      CpuidEntry(FromNat(1), {}, {1}, {2}, {0, 3, 9, 19, 26}, {4, 25}),
      CpuidEntry(FromNat(1), {}, {7}, {7}, {7}, {7})>>,
    <<CpuidEntry({}, {}, {0, 2}, AllOnes32, AllOnes32, AllOnes32)>> }

\* what the cpuid instruction of the host may give
HwCpuids == {HwCpuid, [eax |-> {}, ebx |-> {}, ecx |-> {}, edx |-> {}]}

\* cpuid exits: functions 1, 0 and 4 and 0x100000001 in rax, index 0 and 1 in rcx
ExitsCpuid ==
  { [Exit(EXIT_REASON_CPUID, {}, GuestRegs(rax, rcx)) EXCEPT !.cpuid = hw] :
      rax \in {FromNat(1), {}, FromNat(4), {0, 32}}, rcx \in {{}, FromNat(1)},
      hw \in HwCpuids }
  \cup {ExtInt, IntrWindow, Hlt}

IsRunThread ==
  \/ RunWhile
  \/ RunScan
  \/ RunClear
  \/ RunStore
  \/ RunEntry
  \/ RunExtStore
  \/ RunReturn

NextCpuid ==
  \/ ncalls < MaxCalls /\ \E entries \in CpuidTables : KVM_SET_CPUID2(entries)
  \/ ncalls < MaxCalls /\ run.n < MaxRuns /\ KVM_RUN
  \/ IsRunThread
  \/ \E x \in ExitsCpuid : (run.maxcont < MaxIter \/ x = Hlt) /\ RunExit(x)
  \/ irq.n < MaxIrqCalls /\ KVM_IRQ_LINE(0, 1)
  \/ IrqStore

SpecCpuid == InitCreated /\ [][NextCpuid]_vars

\* the entries of the override table for (function, index)
CpuidMatches(function, index) ==
  {i \in 1..Len(vcpu.cpuids) : vcpu.cpuids[i].function = function
                                /\ vcpu.cpuids[i].index = index}

\* the looked-up values: the first matching entry of the override table, or the host's
CpuidLookedUp(x) ==
  LET m == CpuidMatches(Trunc(x.regs["rax"], 32), Trunc(x.regs["rcx"], 32))
  IN  IF m = {} THEN x.cpuid ELSE vcpu.cpuids[CHOOSE i \in m : \A j \in m : i <= j]

\* C7: after a CPUID exit whose function (the low 32 bits of the guest's rax) is 1 the
\* result registers have none of EDX 25, 26 and ECX 0, 9, 19, 20, 26, 27 set, whether the
\* values came from the override table or from the host; for every other function the
\* looked-up values are written as they are.
C7_CpuidFeatureMask ==
  [][ (run.pc = "guest" /\ run'.pc # "guest"
         /\ run'.x.reason = FromNat(EXIT_REASON_CPUID))
      => LET x == run'.x
             got == CpuidLookedUp(x)
         IN  IF Trunc(x.regs["rax"], 32) = FromNat(1)
             THEN /\ vcpu'.regs["rdx"] \cap {25, 26} = {}
                  /\ vcpu'.regs["rcx"] \cap {0, 9, 19, 20, 26, 27} = {}
             ELSE /\ vcpu'.regs["rax"] = got.eax
                  /\ vcpu'.regs["rbx"] = got.ebx
                  /\ vcpu'.regs["rcx"] = got.ecx
                  /\ vcpu'.regs["rdx"] = got.edx ]_vars

\* C7: a cpuid of function 1 was answered from an override entry that sets every bit.
C7_Witness ==
  /\ run.pc = "while"
  /\ run.x.reason = FromNat(EXIT_REASON_CPUID)
  /\ run.x.regs["rax"] = FromNat(1)
  /\ CpuidMatches(FromNat(1), {}) # {}
  /\ CpuidLookedUp(run.x).edx = AllOnes32
  /\ CpuidLookedUp(run.x).ecx = AllOnes32
  /\ vcpu.regs["rdx"] = AllOnes32 \ {25, 26}
  /\ vcpu.regs["rcx"] = AllOnes32 \ {0, 9, 19, 20, 26, 27}

(***************************************************************************)
(* The run specification: one KVM_RUN with the loop bound of the code, and *)
(* a guest that may exit for the timer, for an interrupt or its window,    *)
(* halt, or fail to enter.                                                 *)
(***************************************************************************)
ExitsRun == {Timer, IntrWindow, ExtInt, ExtIntSignal, Hlt, EntryFailed}

NextRun ==
  \/ run.n < MaxRuns /\ KVM_RUN
  \/ IsRunThread
  \/ \E x \in ExitsRun : RunExit(x)

SpecRun == InitCreated /\ [][NextRun]_vars

\* the same, with a thread that keeps running and a guest that keeps exiting: the host's
\* interrupts force an exit (PIN_BASED_EXT_INTR_MASK is set)
SpecRunFair == SpecRun /\ WF_vars(IsRunThread \/ \E x \in ExitsRun : RunExit(x))

\* a KVM_RUN has returned
RunReturned == run.pc = "idle" /\ run.n > 0

\* the control structure is released: cleared, and the spin lock free
Released == vcpu.vmcs_loaded = 0 /\ ~vcpu.spin_locked

\* the run ended because the bound was exceeded while the last handler said continue
TimedOut == RunReturned /\ run.cont = 1 /\ run.maxcont > MaxCont

\* C8: a run makes at most 1000 world switches, it returns, and when it has returned the
\* control structure is released.
C8_RunTerminates ==
  /\ [](run.switches <= MaxCont /\ (run.pc \in {"idle", "after"} => Released))
  /\ (run.pc # "idle") ~> (RunReturned /\ Released)

\* C8: a run whose every handler said continue returned after 1000 world switches.
C8_Witness ==
  /\ TimedOut
  /\ run.switches = MaxCont
  /\ Released

KvmRegs(seed) ==
  [r \in RegNames \cup {"rflags"} |->
     IF r = "rflags" THEN FromNat(seed) \cup {1, 40}
     ELSE IF r = "rip" THEN FromNat(seed) \cup {16, 63}
     ELSE FromNat(seed + CHOOSE i \in 1..16 : RegByIndex[i] = r) \cup {20, 33}]

RegFiles == {KvmRegs(32), KvmRegs(64)}

ExitsRegs ==
  { ExtInt, IntrWindow, Hlt, IoIn, Cr3Load, Exit(EXIT_REASON_CPUID, {}, G0),
    Exit(EXIT_REASON_MSR_READ, {}, G0), Exit(EXIT_REASON_DR_ACCESS, {}, G0),
    Exit(EXIT_REASON_TASK_SWITCH, {}, G0), Exit(EXIT_REASON_APIC_ACCESS, {}, G0) }

NextRegs ==
  \/ ncalls < MaxCalls /\ \E kvm_regs \in RegFiles : KVM_SET_REGS(kvm_regs)
  \/ ncalls < MaxCalls /\ KVM_GET_REGS
  \/ ncalls < MaxCalls /\ run.n < MaxRuns /\ KVM_RUN
  \/ IsRunThread
  \/ \E x \in ExitsRegs : (run.maxcont < MaxIter \/ x = Hlt) /\ RunExit(x)
  \/ irq.n < MaxIrqCalls /\ \E level \in IrqLevels : KVM_IRQ_LINE(3, level)
  \/ IrqStore

SpecRegs == InitCreated /\ [][NextRegs]_vars

\* C10: a KVM_GET_REGS that directly follows a KVM_SET_REGS with R gives back R in all 18
\* fields, and KVM_SET_REGS changes nothing of the vcpu but regs and rflags, and nothing of
\* the control structure or the page table.
C10_RegsRoundTrip ==
  [][ /\ (call.op = "KVM_SET_REGS" /\ call'.op = "KVM_GET_REGS" /\ ncalls' = ncalls + 1)
         => out' = call.kvm_regs
      /\ (call'.op = "KVM_SET_REGS" /\ ncalls' = ncalls + 1)
         => /\ vcpu' = [vcpu EXCEPT !.regs = vcpu'.regs, !.rflags = vcpu'.rflags]
            /\ vmcs' = vmcs
            /\ heap' = heap ]_vars

\* C10: after a run left a pending interrupt and other registers, R was set and read back.
C10_Witness ==
  /\ call.op = "KVM_GET_REGS"
  /\ out = KvmRegs(64)
  /\ run.n = 1 /\ run.pc = "idle"
  /\ vcpu.pending_irq # {}
  /\ ncalls = 3

(***************************************************************************)
(* The control-register specification: the guest moves values to and from  *)
(* CR0, CR3 and CR4.                                                       *)
(***************************************************************************)
\* mov to cr0 from rax, and from rbx (register number 3 in bits 8..11 of the qualification)
Cr0Write(val)    == Exit(EXIT_REASON_CR_ACCESS, {}, GuestRegs(val, {}))
Cr0WriteRbx(val) == Exit(EXIT_REASON_CR_ACCESS, {8, 9}, [GuestRegs({}, {}) EXCEPT !["rbx"] = val])
\* mov from cr0, mov from cr3 to rax, mov to cr4
Cr0Read          == Exit(EXIT_REASON_CR_ACCESS, {4}, G0)
Cr3Store         == Exit(EXIT_REASON_CR_ACCESS, {0, 1, 4}, G0)
Cr4Write         == Exit(EXIT_REASON_CR_ACCESS, {2}, G0)

\* source values of a mov to cr0: with bit 31 and without, with and without higher bits
Cr0Values == { {31}, {0, 31}, {}, {0, 16}, {32}, {0, 63}, {31, 63} }

ExitsCr ==
  {Cr0Write(val) : val \in Cr0Values}
    \cup {Cr0WriteRbx({0, 31}), Cr0WriteRbx({0, 40})}
    \cup {Cr0Read, Cr3Load, Cr3Store, Cr4Write, Hlt}

NextCr ==
  \/ ncalls < MaxCalls /\ run.n < MaxRuns /\ KVM_RUN
  \/ RunWhile
  \/ RunEntry
  \/ \E x \in ExitsCr : (run.maxcont < MaxIter \/ x = Hlt) /\ RunExit(x)
  \/ RunReturn
  \/ ncalls < MaxCalls /\ KVM_GET_REGS

SpecCr == InitCreated /\ [][NextCr]_vars

\* the exit record x is a mov to cr0
IsCr0Write(x) ==
  /\ x.reason = FromNat(EXIT_REASON_CR_ACCESS)
  /\ x.qualification \cap (0..5) = {}

\* the source value of the mov of exit record x: the register bits 8..11 name
CrSource(x) == x.regs[RegByIndex[ToNat(Shr(x.qualification \cap (8..11), 8)) + 1]]

\* C11 as stated: after a mov to cr0 of a value with bit 31 set the CR0 read shadow is
\* exactly 2^31, the paging flag is 1 and the unrestricted-guest bit is clear; after a mov
\* of a value with bit 31 clear, whatever its bits 32..63, the read shadow is 0, the paging
\* flag is 0 and the unrestricted-guest bit is set.
C11_AsStated ==
  [][ (run.pc = "guest" /\ run'.pc # "guest" /\ IsCr0Write(run'.x))
      => IF 31 \in CrSource(run'.x)
         THEN /\ vmcs'.CR0_READ_SHADOW = {31}
              /\ vcpu'.paging = 1
              /\ vmcs'.SECONDARY_VM_EXEC_CONTROL \cap SECONDARY_EXEC_UNRESTRICTED_GUEST = {}
         ELSE /\ vmcs'.CR0_READ_SHADOW = {}
              /\ vcpu'.paging = 0
              /\ SECONDARY_EXEC_UNRESTRICTED_GUEST \subseteq vmcs'.SECONDARY_VM_EXEC_CONTROL ]_vars

(***************************************************************************)
(* The stop specification: exits the handler table has no handler for,     *)
(* exits after which the instruction-error field is not 0, and exits with  *)
(* a handler, followed by KVM_GET_REGS.                                    *)
(***************************************************************************)
\* exits without a handler: reasons 0 and 51 inside the table, HLT, 53 (the first index
\* past the table), 1000, and the reason of CPUID with bit 31 set
Unhandled0    == Exit(0, {}, G0)
Unhandled51   == Exit(51, {}, GuestRegs({0, 5}, {1}))
Unhandled53   == Exit(53, {}, GuestRegs({0, 6}, {2}))
Unhandled1000 == Exit(1000, {}, G0)
UnhandledHigh == [Exit(EXIT_REASON_CPUID, {}, G0) EXCEPT !.reason = @ \cup {31}]
\* a cpuid exit that leaves VM-instruction error 12
CpuidError    == [Exit(EXIT_REASON_CPUID, {}, G0) EXCEPT !.error = FromNat(12)]

ExitsStop ==
  { Unhandled0, Unhandled51, Unhandled53, Unhandled1000, UnhandledHigh, Hlt, EntryFailed,
    CpuidError, Exit(EXIT_REASON_CPUID, {}, G0), Timer, IoOut, Cr3Load }

\* the table has no handler for the reason: it is past the table, or its slot is empty
NoHandler(reason) ==
  IF Lt(reason, FromNat(kvm_vmx_max_exit_handlers))
  THEN kvm_vmx_exit_handlers(ToNat(reason)) = "NULL"
  ELSE TRUE

\* at the cap of the world switches the guest makes an exit without a handler
NextStop ==
  \/ ncalls < MaxCalls /\ run.n < MaxRuns /\ KVM_RUN
  \/ RunWhile
  \/ RunEntry
  \/ \E x \in ExitsStop : (run.maxcont < MaxIter \/ NoHandler(x.reason)) /\ RunExit(x)
  \/ RunReturn
  \/ ncalls < MaxCalls /\ KVM_GET_REGS

SpecStop == InitCreated /\ [][NextStop]_vars

\* the fields of the vcpu the world switch itself writes
SwitchFields(v) ==
  [v EXCEPT !.regs = {}, !.rflags = {}, !.cr2 = {}, !.exit_qualification = {},
            !.exit_instruction_len = {}, !.phys = {}, !.spin_locked = FALSE, !.vmcs_loaded = 0]

\* C12: at an exit whose reason has no handler (past the table, or an empty slot) no
\* handler runs: the registers of the vcpu are the guest's at the exit, and nothing else of
\* the vcpu and of the control structure is written but what the world switch itself
\* captures and the launch state RELEASE_VMCS clears; the loop is told to stop, and the run
\* makes no further world switch before it returns.
C12_UnhandledStops ==
  [][ /\ (run.pc = "guest" /\ run'.pc # "guest" /\ NoHandler(run'.x.reason))
         => /\ run'.cont = 0
            /\ vcpu'.regs = run'.x.regs
            /\ vcpu'.rflags = run'.x.rflags
            /\ SwitchFields(vcpu') = SwitchFields(vcpu)
            /\ vmcs' = [vmcs EXCEPT !.GUEST_RFLAGS = run'.x.rflags,
                                    !.GUEST_RSP = run'.x.regs["rsp"],
                                    !.GUEST_RIP = run'.x.regs["rip"],
                                    !.VM_ENTRY_INTR_INFO_FIELD = @ \ INTR_INFO_VALID_MASK,
                                    !.launch_state = "clear"]
      /\ (run.pc \in {"while", "load", "after"} /\ run.x # NoExit /\ NoHandler(run.x.reason))
         => /\ run'.pc \in {"after", "idle"}
            /\ run'.switches = run.switches ]_vars

\* C12: a run returned after a cpuid exit and then an exit with reason 53, one past the
\* table, with the guest's registers of that exit in the vcpu.
C12_Witness ==
  /\ RunReturned
  /\ run.x = Unhandled53
  /\ run.switches = 2
  /\ run.cont = 0
  /\ vcpu.regs = Unhandled53.regs

\* C14 as stated: a run in which a world switch left a non-zero instruction error returns
\* a status that is not the success status 0, and a KVM_GET_REGS after it returns 0.
C14_AsStated ==
  /\ (RunReturned /\ run.error # {}) => ret # 0 \/ call.op # "KVM_RUN"
  /\ (RunReturned /\ run.error # {} /\ call.op = "KVM_GET_REGS") => ret = 0

(***************************************************************************)
(* The port I/O specification: the guest reads and writes ports, the       *)
(* caller fills the shared buffer between the runs and runs the guest      *)
(* again.                                                                  *)
(***************************************************************************)
\* in on port 0x3f8, four bytes
IoIn4 == Exit(EXIT_REASON_IO_INSTRUCTION, Hex(<<3, 15, 8, 0, 0, 0, 11>>), G0)

\* what the caller writes into the data page of the shared kvm_run mapping
PioValues == { Hex(<<4, 1>>), Hex(<<1, 1, 2, 2, 3, 3, 4, 4, 5, 5, 6, 6, 7, 7, 8, 8>>) }

\* a store of the caller into the data page it has mapped (KVM_MAP_VCPU)
UserWritePio(val) ==
  /\ vcpu # NoVcpu
  /\ vcpu.pio_data # val
  /\ vcpu' = [vcpu EXCEPT !.pio_data = val]
  /\ UNCHANGED <<vmcs, heap, ioctl_lock, irq_lock, run, irq, irqHist, ret, out, call, ncalls,
                 eptLog, calls, installed, diag>>

ExitsIo == {IoIn, IoIn4, IoOut, Timer, Hlt, Exit(EXIT_REASON_CPUID, {}, G0)}

NextIo ==
  \/ run.n < MaxIoRuns /\ KVM_RUN
  \/ RunWhile
  \/ RunEntry
  \/ \E x \in ExitsIo : (run.maxcont < MaxIter \/ x = Hlt) /\ RunExit(x)
  \/ RunReturn
  \/ \E val \in PioValues : UserWritePio(val)

SpecIo == InitCreated /\ [][NextIo]_vars

\* the exit record x is a port read
IsIoIn(x) == x.reason = FromNat(EXIT_REASON_IO_INSTRUCTION) /\ 3 \in x.qualification

\* the low bytes of the shared buffer a pending read hands to the guest: size * count of
\* the shared io record, at most 8
PioBytes(v) ==
  LET size == v.kvm_vcpu.io.size * v.kvm_vcpu.io.count
  IN  Trunc(v.pio_data, 8 * (IF size < 8 THEN size ELSE 8))

\* C13: a port-read exit sets the pending-I/O flag and stops the loop; the next KVM_RUN
\* copies the shared buffer (the bytes of the access, zero-extended) into the guest's RAX
\* and clears the flag before its loop; and no world switch is made while the flag is set.
C13_PendingIoResolved ==
  [][ /\ (run.pc = "guest" /\ run'.pc # "guest" /\ IsIoIn(run'.x))
         => /\ vcpu'.pending_io = 1
            /\ run'.cont = 0
            /\ run'.pc \in {"while", "after"}
      /\ (run.pc = "idle" /\ run'.pc = "while" /\ vcpu.pending_io # 0)
         => /\ vcpu'.regs["rax"] = PioBytes(vcpu)
            /\ vcpu'.pending_io = 0
      /\ (run.pc # "guest" /\ run'.pc = "guest")
         => /\ vcpu.pending_io = 0
            /\ vcpu'.pending_io = 0 ]_vars

\* C13: the second run entered the guest with the four bytes the caller wrote after the
\* port read of the first run in RAX.
C13_Witness ==
  /\ run.n = 2
  /\ run.pc = "guest"
  /\ vcpu.kvm_vcpu.io.direction = KVM_EXIT_IO_IN
  /\ vcpu.kvm_vcpu.io.size = 4
  /\ vcpu.pio_data = Hex(<<1, 1, 2, 2, 3, 3, 4, 4, 5, 5, 6, 6, 7, 7, 8, 8>>)
  /\ vcpu.regs["rax"] = Hex(<<5, 5, 6, 6, 7, 7, 8, 8>>)
  /\ vcpu.pending_io = 0

(***************************************************************************)
(* The late-interrupt specification: every KVM_IRQ_LINE call is made while *)
(* a run is in progress (the ioctl lock is held by KVM_RUN).               *)
(***************************************************************************)
ExitsLate == {ExtInt, IntrWindow, Timer, Hlt}

NextLate ==
  \/ run.n < MaxRuns /\ KVM_RUN
  \/ IsRunThread
  \/ \E x \in ExitsLate : (run.maxcont < MaxIter \/ x = Hlt) /\ RunExit(x)
  \/ /\ ioctl_lock
     /\ irq.n < MaxIrqCalls
     /\ \E line \in {0, 3}, level \in IrqLevels : KVM_IRQ_LINE(line, level)
  \/ IrqStore

SpecLate == InitCreated /\ [][NextLate]_vars

\* the last KVM_IRQ_LINE call took its line from 0 to 1 and has returned, and the run has
\* not injected that line
AssertedNotInjected ==
  /\ irq.n > 0 /\ irq.pc = "idle"
  /\ irq.line < IRQ_MAX /\ irq.level = 1
  /\ irqHist.prev # 1
  /\ irq.line \notin run.injected

\* C15 as stated, its first part: a line asserted (0 to 1) while a run is executing is seen
\* by that run: every world switch the run makes after the KVM_IRQ_LINE call has returned
\* and before the line is injected is entered with the interrupt-window request bit set.
C15_AsStated ==
  [][ (run.pc = "load" /\ run'.pc = "guest" /\ AssertedNotInjected)
      => CPU_BASED_VIRTUAL_INTR_PENDING \subseteq vmcs'.CPU_BASED_VM_EXEC_CONTROL ]_vars

(***************************************************************************)
(* kvm_dev_ioctl as a whole, on a handle that was opened and has no vcpu   *)
(* yet.  One caller thread issues commands through the three steps of the  *)
(* function: the lookup of the state and of state->vcpu, the lock, and     *)
(* the body with the unlock.  KVM_RUN and KVM_IRQ_LINE on a handle with a  *)
(* vcpu are the run thread and the irq thread modelled above.              *)
(***************************************************************************)
\* linux/kvm.h
KVM_API_VERSION == 12
\* sys/errno.h
E2BIG == 7
ENOENT == 2
VCPU_SIZE == 2 * PAGE_SIZE

\* state_find(pProcess) == NULL: the struct state of the handle was unlinked by kvm_dev_close
NoState == [pml4 |-> FAULT]

\* the commands of the first switch of kvm_dev_ioctl, which runs whether or not state->vcpu
\* is NULL
FirstSwitch ==
  { "KVM_GET_API_VERSION", "KVM_CREATE_VM", "KVM_GET_VCPU_MMAP_SIZE", "KVM_CHECK_EXTENSION",
    "KVM_GET_MSR_INDEX_LIST", "KVM_GET_SUPPORTED_CPUID" }

\* the commands of the second and third switch whose case is "ret = 0" and nothing else
ReturnZero ==
  { "KVM_CREATE_VCPU", "KVM_SET_IDENTITY_MAP_ADDR", "KVM_SET_TSS_ADDR", "KVM_CREATE_IRQCHIP",
    "KVM_CREATE_PIT", "KVM_GET_FPU", "KVM_SET_FPU", "KVM_SET_SIGNAL_MASK" }

\* the commands of the second and third switch the caller of the control specification
\* issues only on a handle without a vcpu, where they end at the test of the vcpu pointer
BeforeCreateOnly ==
  { "KVM_RUN", "KVM_IRQ_LINE", "KVM_GET_IRQCHIP", "KVM_SET_IRQCHIP", "KVM_GET_PIT",
    "KVM_SET_PIT", "KVM_GET_SREGS", "KVM_SET_SREGS", "KVM_SET_MSRS", "KVM_SET_CPUID2" }

\* the capabilities case KVM_CHECK_EXTENSION answers with 1
SupportedExtensions ==
  { "KVM_CAP_USER_MEMORY", "KVM_CAP_DESTROY_MEMORY_REGION_WORKS", "KVM_CAP_SET_TSS_ADDR",
    "KVM_CAP_EXT_CPUID", "KVM_CAP_MP_STATE", "KVM_CAP_SYNC_MMU", "KVM_CAP_TSC_CONTROL",
    "KVM_CAP_JOIN_MEMORY_REGIONS_WORKS" }

kvm_check_extension(test) == IF test \in SupportedExtensions THEN 1 ELSE 0

\* kvm_get_msr_index_list: ARRAY_SIZE(emulated_msrs) is 5
kvm_get_msr_index_list(nmsrs) == IF nmsrs < 5 THEN E2BIG ELSE 0

\* kvm_get_supported_cpuid: ARRAY_SIZE(param) is 15
kvm_get_supported_cpuid(nent) == IF nent < 15 THEN E2BIG ELSE 0

\* vcpu->mm->getAddress(): where createMappingInTask put the shared pages in the caller's task
MappedInTask == Hex(<<7, 14, 0, 0, 0, 0>>)

\* int ret = EINVAL
ioctl_ret_einval == EINVAL

\* int ret = EOPNOTSUPP
ioctl_ret == EOPNOTSUPP

\* the lock every command takes if the test of the command is dropped
IoctlLock_irq_for_all(iCmd) == "irq_lock"

\* the lock kvm_dev_ioctl takes and releases for a command
IoctlLock(iCmd) == IF iCmd # "KVM_IRQ_LINE" THEN "ioctl_lock" ELSE "irq_lock"

\* the first switch of kvm_dev_ioctl, on the state s0 of the handle with ret = EOPNOTSUPP
kvm_dev_ioctl_first(s0, iCmd, arg) ==
  CASE iCmd = "KVM_GET_API_VERSION" -> [s0 EXCEPT !.ret = KVM_API_VERSION]
    [] iCmd = "KVM_CREATE_VM" -> create_vm(s0.heap) @@ [ret |-> 0, out |-> s0.out]
    [] iCmd = "KVM_GET_VCPU_MMAP_SIZE" -> [s0 EXCEPT !.ret = VCPU_SIZE]
    [] iCmd = "KVM_CHECK_EXTENSION" -> [s0 EXCEPT !.ret = kvm_check_extension(arg)]
    [] iCmd = "KVM_GET_MSR_INDEX_LIST" ->
         [s0 EXCEPT !.ret = kvm_get_msr_index_list(arg),
                    !.out = IF arg < 5 THEN s0.out ELSE 5]
    [] iCmd = "KVM_GET_SUPPORTED_CPUID" ->
         [s0 EXCEPT !.ret = kvm_get_supported_cpuid(arg),
                    !.out = IF arg < 15 THEN s0.out ELSE 15]
    [] OTHER -> s0

\* kvm_dev_ioctl from the test of the vcpu pointer to the label fail: s1 is what the first
\* switch left, local tells whether the vcpu pointer read before the lock was not NULL
kvm_dev_ioctl_rest(s1, local, iCmd, arg) ==
  IF ~local /\ iCmd # "KVM_CREATE_VM" THEN s1
  ELSE CASE iCmd \in ReturnZero -> [s1 EXCEPT !.ret = 0]
         [] iCmd = "KVM_SET_USER_MEMORY_REGION" ->
              LET r == kvm_set_user_memory_region(s1.heap, s1.vcpu, arg.mr,
                                                  arg.prepare, arg.frames)
              IN  [s1 EXCEPT !.ret = r.ret, !.heap = r.heap, !.log = s1.log \o r.log]
         [] iCmd = "KVM_GET_REGS" -> [s1 EXCEPT !.ret = 0, !.out = kvm_get_regs(s1.vcpu)]
         [] iCmd = "KVM_SET_REGS" -> [s1 EXCEPT !.ret = 0, !.vcpu = kvm_set_regs(s1.vcpu, arg)]
         [] iCmd = "KVM_GET_IRQCHIP" -> [s1 EXCEPT !.out = s1.vcpu.irqchip]
         [] iCmd = "KVM_SET_IRQCHIP" -> [s1 EXCEPT !.ret = 0, !.vcpu.irqchip = arg]
         [] iCmd = "KVM_GET_PIT" -> [s1 EXCEPT !.ret = 0, !.out = s1.vcpu.pit_state]
         [] iCmd = "KVM_SET_PIT" -> [s1 EXCEPT !.ret = 0, !.vcpu.pit_state = arg]
         [] iCmd = "KVM_MMAP_VCPU" ->
              [s1 EXCEPT !.ret = 0, !.vcpu.mm = MappedInTask, !.out = MappedInTask]
         [] OTHER -> s1

\* kvm_dev_ioctl from the test of pData to the label fail.  s holds the handle's vcpu, control
\* structure and heap, what the caller got back and the ept_add_page log; local is whether
\* the pointer read from state->vcpu before the lock was non-NULL
kvm_dev_ioctl(s, local, iCmd, pData, arg) ==
  IF pData = 0 \/ pData < PAGE_SIZE THEN [s EXCEPT !.ret = ioctl_ret]
  ELSE kvm_dev_ioctl_rest(kvm_dev_ioctl_first([s EXCEPT !.ret = ioctl_ret], iCmd, arg),
                          local, iCmd, arg)

\* the handle was opened by kvm_dev_open and no command was issued: state->vcpu is NULL and
\* nothing was allocated
InitOpened ==
  /\ vcpu = NoVcpu
  /\ vmcs = vmcs_clear
  /\ heap = <<>>
  /\ eptLog = <<>>
  /\ ioctl_lock = FALSE
  /\ irq_lock = FALSE
  /\ run = RunIdle
  /\ irq = IrqIdle
  /\ irqHist = NoIrqHist
  /\ ret = 0
  /\ out = <<>>
  /\ call = NoCall
  /\ ncalls = 0
  /\ calls = {}
  /\ installed = {}
  /\ diag = {}

\* the caller thread is outside kvm_dev_ioctl
CtlIdle == IF "pc" \in DOMAIN call THEN call.pc = "done" ELSE TRUE

\* the caller thread is at the given step of kvm_dev_ioctl
CtlAt(pc) == IF "pc" \in DOMAIN call THEN call.pc = pc ELSE FALSE

\* contents of a struct kvm_pit_state or struct kvm_irqchip, as the bits that are set in it
BlockA == {0, 3}
BlockB == {1, 70}

\* the commands the caller thread issues: <<command, pData, argument>>
CtlRequests ==
  << <<"KVM_GET_API_VERSION", PAGE_SIZE, 0>>,
     <<"KVM_GET_API_VERSION", 0, 0>>,
     <<"KVM_CREATE_VM", PAGE_SIZE, 0>>,
     <<"KVM_GET_VCPU_MMAP_SIZE", PAGE_SIZE, 0>>,
     <<"KVM_CHECK_EXTENSION", PAGE_SIZE, "KVM_CAP_USER_MEMORY">>,
     <<"KVM_CHECK_EXTENSION", PAGE_SIZE, "KVM_CAP_IRQCHIP">>,
     <<"KVM_GET_MSR_INDEX_LIST", PAGE_SIZE, 5>>,
     <<"KVM_GET_MSR_INDEX_LIST", PAGE_SIZE, 0>>,
     <<"KVM_GET_SUPPORTED_CPUID", PAGE_SIZE, 15>>,
     <<"KVM_GET_SUPPORTED_CPUID", PAGE_SIZE, 14>>,
     <<"KVM_CREATE_VCPU", PAGE_SIZE, 0>>,
     <<"KVM_SET_USER_MEMORY_REGION", PAGE_SIZE, Request(R_1000_2p, 0, <<HostA, HostB>>)>>,
     <<"KVM_SET_IDENTITY_MAP_ADDR", PAGE_SIZE, 0>>,
     <<"KVM_SET_TSS_ADDR", PAGE_SIZE, 0>>,
     <<"KVM_CREATE_IRQCHIP", PAGE_SIZE, 0>>,
     <<"KVM_CREATE_PIT", PAGE_SIZE, 0>>,
     <<"KVM_GET_FPU", PAGE_SIZE, 0>>,
     <<"KVM_SET_FPU", PAGE_SIZE, 0>>,
     <<"KVM_SET_SIGNAL_MASK", PAGE_SIZE, 0>>,
     <<"KVM_GET_REGS", PAGE_SIZE, 0>>,
     <<"KVM_GET_REGS", 8, 0>>,
     <<"KVM_SET_REGS", PAGE_SIZE, KvmRegs(32)>>,
     <<"KVM_SET_REGS", PAGE_SIZE, KvmRegs(64)>>,
     <<"KVM_MMAP_VCPU", PAGE_SIZE, 0>>,
     <<"KVM_RUN", PAGE_SIZE, 0>>,
     <<"KVM_IRQ_LINE", PAGE_SIZE, 0>>,
     <<"KVM_GET_IRQCHIP", PAGE_SIZE, 0>>,
     <<"KVM_SET_IRQCHIP", PAGE_SIZE, BlockA>>,
     <<"KVM_GET_PIT", PAGE_SIZE, 0>>,
     <<"KVM_SET_PIT", PAGE_SIZE, BlockB>>,
     <<"KVM_GET_SREGS", PAGE_SIZE, 0>>,
     <<"KVM_SET_SREGS", PAGE_SIZE, 0>>,
     <<"KVM_SET_MSRS", PAGE_SIZE, 0>>,
     <<"KVM_SET_CPUID2", PAGE_SIZE, 0>>,
     <<"KVM_GET_CLOCK", PAGE_SIZE, 0>> >>

\* kvm_dev_ioctl up to the lock: the state of the handle is found, or the call returns
\* ENOENT, and state->vcpu is read
CtlEnter(iCmd, pData, arg) ==
  /\ CtlIdle
  /\ IF vcpu = NoState
     THEN /\ call' = [op |-> iCmd, pData |-> pData, arg |-> arg, pc |-> "done",
                      local |-> FALSE]
          /\ ret' = ENOENT
     ELSE /\ call' = [op |-> iCmd, pData |-> pData, arg |-> arg, pc |-> "lock",
                      local |-> vcpu # NoVcpu]
          /\ ret' = ret
  /\ ncalls' = ncalls + 1
  /\ UNCHANGED <<vcpu, vmcs, heap, ioctl_lock, irq_lock, run, irq, irqHist, out,
                 eptLog, calls, installed, diag>>

\* a call of the caller thread of the control specification
CtlCall(iCmd, pData, arg) ==
  /\ iCmd \in BeforeCreateOnly => vcpu = NoVcpu
  /\ CtlEnter(iCmd, pData, arg)

\* IOLockLock on the lock of the command: the thread goes on once the lock is free
CtlLock ==
  /\ CtlAt("lock")
  /\ IF IoctlLock(call.op) = "ioctl_lock"
     THEN /\ ~ioctl_lock
          /\ ioctl_lock' = TRUE
          /\ irq_lock' = irq_lock
     ELSE /\ ~irq_lock
          /\ irq_lock' = TRUE
          /\ ioctl_lock' = ioctl_lock
  /\ call' = [call EXCEPT !.pc = "body"]
  /\ UNCHANGED <<vcpu, vmcs, heap, run, irq, irqHist, ret, out, ncalls, eptLog, calls,
                 installed, diag>>

\* kvm_dev_ioctl from the test of pData to its return: the switches, or the jump to fail,
\* and IOLockUnlock on the lock of the command
CtlBody ==
  /\ CtlAt("body")
  /\ \E r \in { kvm_dev_ioctl([vcpu |-> vcpu, vmcs |-> vmcs, heap |-> heap, out |-> out,
                                 log |-> eptLog, ret |-> ret],
                                call.local, call.op, call.pData, call.arg) } :
       LET reached == call.op = "KVM_SET_USER_MEMORY_REGION" /\ call.local
                      /\ call.pData >= PAGE_SIZE
       IN  /\ vcpu' = r.vcpu
           /\ vmcs' = r.vmcs
           /\ heap' = r.heap
           /\ out' = r.out
           /\ eptLog' = r.log
           /\ ret' = r.ret
           /\ calls' = IF reached THEN calls \cup {call.arg.mr} ELSE calls
           /\ installed' = IF reached /\ r.ret = 0 THEN installed \cup {call.arg.mr}
                           ELSE installed
  /\ IF IoctlLock(call.op) = "ioctl_lock"
     THEN ioctl_lock' = FALSE /\ irq_lock' = irq_lock
     ELSE irq_lock' = FALSE /\ ioctl_lock' = ioctl_lock
  /\ call' = [call EXCEPT !.pc = "done"]
  /\ UNCHANGED <<run, irq, irqHist, ncalls, diag>>

\* the exits of the runs: none of them is an interrupt-window exit, so the run thread
\* never reaches the scan of the pending bits
ExitsCtl == {Hlt, Timer}

NextCtl ==
  \/ /\ ncalls < MaxCalls
     /\ \E i \in 1..Len(CtlRequests) :
          CtlCall(CtlRequests[i][1], CtlRequests[i][2], CtlRequests[i][3])
  \/ CtlLock
  \/ CtlBody
  \/ CtlIdle /\ run.n < MaxRuns /\ KVM_RUN
  \/ RunWhile
  \/ RunEntry
  \/ \E x \in ExitsCtl : (run.maxcont < MaxIter \/ x = Hlt) /\ RunExit(x)
  \/ RunReturn
  \/ /\ run.pc # "idle"
     /\ irq.n < MaxIrqCalls
     /\ \E line \in {3}, level \in IrqLevels : KVM_IRQ_LINE(line, level)
  \/ IrqStore

SpecCtl == InitOpened /\ [][NextCtl]_vars

\* the caller thread is in the body of a command other than KVM_IRQ_LINE
CtlHoldsIoctlLock == CtlAt("body") /\ call.op # "KVM_IRQ_LINE"

\* the caller thread is in the body of a KVM_IRQ_LINE
CtlHoldsIrqLock == CtlAt("body") /\ call.op = "KVM_IRQ_LINE"

\* C16: a command other than KVM_IRQ_LINE is never in its body while a KVM_RUN is in
\* progress; each lock is held exactly while a command that took it is between its lock
\* and its return, so it is free after every return, the one through fail included; a
\* KVM_IRQ_LINE leaves the ioctl lock alone and can start whenever the irq lock is free,
\* also while a KVM_RUN is in progress
C16_LockDiscipline ==
  /\ [](~(CtlHoldsIoctlLock /\ run.pc # "idle"))
  /\ [](ioctl_lock <=> (CtlHoldsIoctlLock \/ run.pc # "idle"))
  /\ [](irq_lock <=> (CtlHoldsIrqLock \/ irq.pc = "store"))
  /\ []((run.pc # "idle" /\ irq.pc = "idle" /\ ~irq_lock) => ENABLED KVM_IRQ_LINE(3, 1))
  /\ [][(irq' # irq) => (ioctl_lock' = ioctl_lock /\ run' = run)]_vars

\* a KVM_IRQ_LINE was issued and has returned while the KVM_RUN is in the guest and the
\* caller thread waits for the ioctl lock with a KVM_GET_REGS
C16_Witness ==
  /\ run.pc = "guest"
  /\ irq.pc = "idle"
  /\ irq.n = 1
  /\ vcpu.irq_level[3] = 1
  /\ CtlAt("lock")
  /\ call.op = "KVM_GET_REGS"
  /\ ioctl_lock

\* C17: a command whose body ends on a handle that has no vcpu returns EOPNOTSUPP and
\* leaves the handle, the heap, the control structure and the caller's buffer as they
\* were, unless it is one of the six commands of the first switch; only those return
\* anything else, and only KVM_CREATE_VM gives the handle a vcpu
C17_BeforeCreateVm ==
  [][ (CtlAt("body") /\ vcpu = NoVcpu)
      => /\ call.op \notin FirstSwitch
              => /\ ret' = EOPNOTSUPP
                 /\ vcpu' = NoVcpu
                 /\ <<heap, vmcs, out, eptLog, run, irq, irqHist>>'
                      = <<heap, vmcs, out, eptLog, run, irq, irqHist>>
         /\ ret' # EOPNOTSUPP => call.op \in FirstSwitch
         /\ vcpu' # NoVcpu => call.op = "KVM_CREATE_VM" ]_vars

\* a KVM_RUN issued before any KVM_CREATE_VM has returned EOPNOTSUPP, after a
\* KVM_GET_API_VERSION was answered
C17_Witness ==
  /\ CtlAt("done")
  /\ call.op = "KVM_RUN"
  /\ ret = EOPNOTSUPP
  /\ vcpu = NoVcpu
  /\ ncalls = 2
  /\ run = RunIdle

\* C18: a KVM_CREATE_VM on a handle that has a vcpu allocates nothing and leaves the vcpu
\* as it is
C18_AsStated ==
  [][ (CtlAt("body") /\ call.op = "KVM_CREATE_VM" /\ call.pData >= PAGE_SIZE
       /\ vcpu # NoVcpu)
      => (vcpu' = vcpu /\ heap' = heap) ]_vars

(***************************************************************************)
(* kvm_dev_close.  The kernel calls it for the handle; nothing in it waits *)
(* for a command in progress.  What a thread inside kvm_dev_ioctl does     *)
(* with the memory freed under it is undefined: the behaviours end there.  *)
(***************************************************************************)
\* what kvm_dev_close frees up to the release of the mapping
FreedFirst == {"virtual_apic_page", "apic_access", "vmcs", "msrs", "cpuids"}

\* what kvm_dev_close frees after the release of the mapping
FreedLast == {"kvm_vcpu", "ept", "vcpu", "ioctl_lock", "irq_lock", "state"}

\* kvm_dev_close for a handle opened once.  Without a vcpu the first IOFree dereferences
\* NULL; with a vcpu that was never mapped, mm->unmap() is a call through NULL, which
\* either faults or returns (ub)
kvm_dev_close(ub) ==
  /\ vcpu # NoState
  /\ vcpu' = NoState
  /\ LET fault == IF vcpu = NoVcpu THEN TRUE
                  ELSE IF vcpu.mm = NULL THEN ub = "fault"
                  ELSE FALSE
         freed == IF vcpu = NoVcpu THEN {}
                  ELSE IF fault THEN FreedFirst
                  ELSE FreedFirst \cup FreedLast
     IN  /\ call' = [op |-> "close", freed |-> freed, fault |-> fault, pc |-> "done"]
         /\ heap' = IF "ept" \in freed THEN <<>> ELSE heap
         /\ ret' = IF fault THEN ret ELSE 0
  /\ UNCHANGED <<vmcs, ioctl_lock, irq_lock, run, irq, irqHist, out, ncalls, eptLog, calls,
                 installed, diag>>

NextClose ==
  \/ /\ ncalls < MaxCalls
     /\ \E i \in 1..Len(CtlRequests) :
          CtlCall(CtlRequests[i][1], CtlRequests[i][2], CtlRequests[i][3])
  \/ vcpu # NoState /\ CtlLock
  \/ vcpu # NoState /\ CtlBody
  \/ vcpu # NoState /\ CtlIdle /\ run.n < MaxRuns /\ KVM_RUN
  \/ vcpu # NoState /\ RunWhile
  \/ vcpu # NoState /\ RunEntry
  \/ vcpu # NoState /\ \E x \in ExitsCtl : (run.maxcont < MaxIter \/ x = Hlt) /\ RunExit(x)
  \/ vcpu # NoState /\ RunReturn
  \/ /\ vcpu # NoState
     /\ run.pc # "idle"
     /\ irq.n < MaxIrqCalls
     /\ \E line \in {3}, level \in IrqLevels : KVM_IRQ_LINE(line, level)
  \/ vcpu # NoState /\ IrqStore
  \/ \E ub \in {"fault", "returns"} : kvm_dev_close(ub)

SpecClose == InitOpened /\ [][NextClose]_vars

\* C19: kvm_dev_close frees the control structure, the page tables or the vcpu only
\* while no command holds the ioctl lock
C19_AsStated ==
  [][ (vcpu # NoState /\ vcpu' = NoState /\ call'.freed \cap {"vmcs", "ept", "vcpu"} # {})
      => ~ioctl_lock ]_vars

(***************************************************************************)
(* ept_add_page when IOMallocAligned runs out of memory.  IOCallocAligned  *)
(* then returns NULL (it only skips the bzero); avail is the number of     *)
(* allocations that still succeed.  A load or a store through NULL is a    *)
(* fault of the kernel: the behaviour ends there.                          *)
(***************************************************************************)
\* one "allocate the child if NULL" block of ept_add_page: the heap after it, whether the
\* block asked for memory, and whether the read of the table faulted; ok is whether
\* IOCallocAligned has memory to give
EptEnsureChildOrNull(h, table, idx, len, ok) ==
  IF ~IsNode(h, table) THEN [heap |-> h, asked |-> FALSE, fault |-> TRUE]
  ELSE IF Load(h, table, PAGE_OFFSET + idx) # NULL
       THEN [heap |-> h, asked |-> FALSE, fault |-> FALSE]
       ELSE IF ok
            THEN [heap |-> EptEnsureChild(h, table, idx, len), asked |-> TRUE, fault |-> FALSE]
            ELSE [heap |-> Store(Store(h, table, PAGE_OFFSET + idx, NULL), table, idx,
                                 __pa(NULL) \cup EPT_DEFAULTS),
                  asked |-> TRUE, fault |-> FALSE]

\* ept_add_page with avail allocations left: the heap after it (or at the fault), whether
\* an IOCallocAligned returned NULL, and whether a NULL pointer was dereferenced
ept_add_page_avail(h, v, virtual_address, physical_address, avail) ==
  LET pml4_idx == EptIndex(virtual_address, 39)
      pdpt_idx == EptIndex(virtual_address, 30)
      pd_idx   == EptIndex(virtual_address, 21)
      pt_idx   == EptIndex(virtual_address, 12)
      Level3(h3, pt, failed) ==
        IF ~IsNode(h3, pt) THEN [heap |-> h3, failed |-> failed, fault |-> TRUE]
        ELSE [heap |-> Store(h3, pt, pt_idx,
                             physical_address \cup EPT_DEFAULTS \cup EPT_CACHE_WRITEBACK),
              failed |-> failed, fault |-> FALSE]
      Level2(h2, pd, a, failed) ==
        \* a: the allocations left; r: the block for the pt
        IF ~IsNode(h2, pd) THEN [heap |-> h2, failed |-> failed, fault |-> TRUE]
        ELSE CHOOSE res \in
               { Level3(r.heap, Load(r.heap, pd, PAGE_OFFSET + pd_idx),
                        failed \/ (r.asked /\ a = 0))
                 : r \in {EptEnsureChildOrNull(h2, pd, pd_idx, PAGE_OFFSET, a > 0)} } : TRUE
      Level1(h1, pdpt, a, failed) ==
        IF ~IsNode(h1, pdpt) THEN [heap |-> h1, failed |-> failed, fault |-> TRUE]
        ELSE CHOOSE res \in
               { Level2(r.heap, Load(r.heap, pdpt, PAGE_OFFSET + pdpt_idx),
                        IF r.asked /\ a > 0 THEN a - 1 ELSE a,
                        failed \/ (r.asked /\ a = 0))
                 : r \in {EptEnsureChildOrNull(h1, pdpt, pdpt_idx, 2 * PAGE_OFFSET, a > 0)} }
               : TRUE
  IN  CHOOSE res \in
        { Level1(r.heap, Load(r.heap, v.pml4, PAGE_OFFSET + pml4_idx),
                 IF r.asked /\ avail > 0 THEN avail - 1 ELSE avail,
                 r.asked /\ avail = 0)
          : r \in {EptEnsureChildOrNull(h, v.pml4, pml4_idx, 2 * PAGE_OFFSET, avail > 0)} }
        : TRUE

\* the kernel faulted in the last command
Faulted == IF "fault" \in DOMAIN call THEN call.fault ELSE FALSE

\* the requests for one page at an aligned address: the loop of kvm_set_user_memory_region
\* makes one turn
RequestsOnePage ==
  { rq \in Requests : /\ rq.mr.memory_size = PAGE_SIZE
                      /\ rq.mr.userspace_addr \cap PageOffsetBits = {}
                      /\ rq.prepare = 0 }

\* case KVM_SET_USER_MEMORY_REGION of kvm_dev_ioctl for a one-page region, with avail
\* allocations left in the kernel
KVM_SET_USER_MEMORY_REGION_avail(mr, frames, avail) ==
  /\ ~ioctl_lock
  /\ vcpu # NoVcpu
  /\ ~Faulted
  /\ mr.memory_size = PAGE_SIZE
  /\ LET physical == getPhysicalSegment(frames, mr.userspace_addr, 0)
     IN  /\ physical # {}
         /\ \E r \in {ept_add_page_avail(heap, vcpu, mr.guest_phys_addr, physical, avail)} :
              /\ heap' = r.heap
              /\ ret' = IF r.fault THEN ret ELSE 0
              /\ call' = [op |-> "KVM_SET_USER_MEMORY_REGION", mr |-> mr, prepare |-> 0,
                          frames |-> frames, avail |-> avail, failed |-> r.failed,
                          fault |-> r.fault]
              /\ installed' = IF r.fault THEN installed ELSE installed \cup {mr}
              /\ eptLog' = Append(eptLog, [va |-> mr.guest_phys_addr, pa |-> physical])
  /\ calls' = calls \cup {mr}
  /\ ncalls' = ncalls + 1
  /\ UNCHANGED <<vcpu, vmcs, ioctl_lock, irq_lock, run, irq, irqHist, out, diag>>

\* the allocations the kernel can still make when a command starts
MaxAvail == 3

NextNoMem ==
  /\ ncalls < MaxCalls
  /\ \E rq \in RequestsOnePage, avail \in 0..MaxAvail :
       KVM_SET_USER_MEMORY_REGION_avail(rq.mr, rq.frames, avail)

SpecNoMem == InitCreated /\ [][NextNoMem]_vars

\* C20: a KVM_SET_USER_MEMORY_REGION in which an allocation of a table fails returns
\* ENOMEM without a load or store through NULL, and every page mapped by an earlier
\* command translates as before
C20_AsStated ==
  [][ (ncalls' = ncalls + 1 /\ call'.failed)
      => /\ LET ENOMEM == 12 IN ret' = ENOMEM
         /\ ~call'.fault
         /\ \A mr \in installed :
              ept_translate(heap', vcpu, mr.guest_phys_addr)
                = ept_translate(heap, vcpu, mr.guest_phys_addr) ]_vars

(***************************************************************************)
(* The PIT and IRQ-chip state blocks: KVM_SET_PIT, KVM_GET_PIT,            *)
(* KVM_SET_IRQCHIP and KVM_GET_IRQCHIP on a handle with a vcpu.            *)
(***************************************************************************)
ChipRequests ==
  << <<"KVM_SET_PIT", PAGE_SIZE, BlockA>>,
     <<"KVM_SET_PIT", PAGE_SIZE, BlockB>>,
     <<"KVM_GET_PIT", PAGE_SIZE, 0>>,
     <<"KVM_SET_IRQCHIP", PAGE_SIZE, BlockA>>,
     <<"KVM_SET_IRQCHIP", PAGE_SIZE, BlockB>>,
     <<"KVM_GET_IRQCHIP", PAGE_SIZE, 0>>,
     <<"KVM_SET_REGS", PAGE_SIZE, KvmRegs(32)>> >>

NextChip ==
  \/ /\ ncalls < MaxCalls
     /\ \E i \in 1..Len(ChipRequests) :
          CtlEnter(ChipRequests[i][1], ChipRequests[i][2], ChipRequests[i][3])
  \/ CtlLock
  \/ CtlBody

SpecChip == InitCreated /\ [][NextChip]_vars

\* C21: a KVM_GET_PIT returns 0 and the block the vcpu holds for the PIT (the one the last
\* KVM_SET_PIT stored), a KVM_GET_IRQCHIP returns 0 and the block of the IRQ chip, a set
\* returns 0 and stores its block, and none of the four changes anything else of the vcpu
C21_AsStated ==
  [][ CtlAt("body") =>
        /\ call.op = "KVM_GET_PIT"
              => (ret' = 0 /\ out' = vcpu.pit_state /\ vcpu' = vcpu)
        /\ call.op = "KVM_GET_IRQCHIP"
              => (ret' = 0 /\ out' = vcpu.irqchip /\ vcpu' = vcpu)
        /\ call.op = "KVM_SET_PIT"
              => (ret' = 0 /\ vcpu' = [vcpu EXCEPT !.pit_state = call.arg])
        /\ call.op = "KVM_SET_IRQCHIP"
              => (ret' = 0 /\ vcpu' = [vcpu EXCEPT !.irqchip = call.arg]) ]_vars

(***************************************************************************)
(* The I/O exit and the run loop.                                          *)
(***************************************************************************)
IsIo(x) == x.reason = FromNat(EXIT_REASON_IO_INSTRUCTION)

\* C22 as stated: after an I/O exit, in or out, rip is the guest's rip plus the instruction
\* length and the handler's result is continue
C22_AsStated ==
  [][ (run.pc = "guest" /\ run'.pc # "guest" /\ IsIo(run'.x))
      => /\ vcpu'.regs["rip"] = Add64(run'.x.regs["rip"], run'.x.instruction_len)
         /\ run'.cont = 1 ]_vars

\* C22: after an I/O exit, in or out, rip is the guest's rip plus the instruction length,
\* the shared exit reason is KVM_EXIT_IO and the handler's result is stop; the run loop
\* then makes no further world switch and the call returns 0
C22_IoSkipsAndStops ==
  [][ /\ (run.pc = "guest" /\ run'.pc # "guest" /\ IsIo(run'.x))
         => /\ vcpu'.regs["rip"] = Add64(run'.x.regs["rip"], run'.x.instruction_len)
            /\ vcpu'.kvm_vcpu.exit_reason = KVM_EXIT_IO
            /\ run'.cont = 0
      /\ (run.pc \in {"while", "after"} /\ run' # run /\ run.x # NoExit /\ IsIo(run.x))
         => /\ run'.pc \in {"after", "idle"}
            /\ run'.switches = run.switches
            /\ run'.pc = "idle" => ret' = 0 ]_vars

\* the second run has returned after a write to a port: one world switch, rip two bytes past
\* the out instruction
C22_Witness ==
  /\ RunReturned
  /\ run.x = IoOut
  /\ run.switches = 1
  /\ run.n = 2
  /\ run.cont = 0
  /\ vcpu.regs["rip"] = Hex(<<7, 12, 0, 2>>)
  /\ vcpu.kvm_vcpu.exit_reason = KVM_EXIT_IO
  /\ ret = 0

\* C23: when the instruction error read after a world switch is not 0, the run thread
\* leaves the loop, whatever the handler returned and whatever the iteration count, and
\* makes no further world switch before the call returns
C23_ErrorStops ==
  [][ /\ (run.pc = "guest" /\ run'.pc # "guest" /\ run'.x.error # {})
         => /\ run'.pc = "after"
            /\ run'.error = run'.x.error
      /\ (run.pc \notin {"idle", "guest"} /\ run.error # {} /\ run' # run)
         => /\ run'.pc \in {"after", "idle"}
            /\ run'.switches = run.switches ]_vars

\* a run has returned after one world switch whose cpuid exit carried instruction error
\* 12: the handler had returned continue and the iteration bound was not reached
C23_Witness ==
  /\ RunReturned
  /\ run.x = CpuidError
  /\ run.cont = 1
  /\ run.switches = 1
  /\ run.maxcont = 1
  /\ run.maxcont < MaxCont

\* the step writes the interruption field of the entry: an interrupt is injected
Injects == run.pc = "load" /\ run'.pc = "guest" /\ run.intr_info # {}

\* C24 as stated: an interrupt is injected at an entry only if the exit before it in the
\* same run was an interrupt-window exit; the line injected is the one the scan chose, no
\* lower line was pending when it was chosen unless a KVM_IRQ_LINE call was made for it,
\* and the clearing of its pending bit leaves every other pending bit as it was.
C24_AsStated ==
  [][ /\ Injects
         => /\ run.exit_reason = FromNat(EXIT_REASON_PENDING_INTERRUPT)
            /\ run.maxcont > 1
            /\ run.i \in 0..(IRQ_MAX - 1)
            /\ run.intr_info = INTR_INFO_VALID_MASK \cup INTR_TYPE_EXT_INTR
                                 \cup FromNat(run.i + (IF vcpu.paging # 0 THEN 48 ELSE 8))
      /\ (run.pc = "scan" /\ run'.pc = "clear")
         => /\ run.i \in vcpu.pending_irq
            /\ \A j \in 0..(run.i - 1) : j \in vcpu.pending_irq => irqHist.last[j] # -1
      /\ (run.pc = "store" /\ run'.pc = "load")
         => vcpu'.pending_irq = vcpu.pending_irq \ {run.i} ]_vars

\* the step is a world switch: the entry into the guest
WorldSwitch == run.pc = "load" /\ run'.pc = "guest"

\* C25: at every world switch the interrupt-window request bit of the execution controls is
\* set if and only if the pending bitmap read after the injection step of that iteration is
\* not empty; the other bits of the execution controls are left as they were
C25_WindowIffPending ==
  [][ WorldSwitch
      => /\ (CPU_BASED_VIRTUAL_INTR_PENDING \subseteq vmcs'.CPU_BASED_VM_EXEC_CONTROL)
              <=> (vcpu.pending_irq # {})
         /\ vmcs'.CPU_BASED_VM_EXEC_CONTROL \ CPU_BASED_VIRTUAL_INTR_PENDING
              = vmcs.CPU_BASED_VM_EXEC_CONTROL \ CPU_BASED_VIRTUAL_INTR_PENDING ]_vars

\* the second entry of a run injects line 0, the only line that was pending, and is made
\* with the request bit cleared
C25_Witness ==
  /\ run.pc = "guest" /\ run.switches = 2
  /\ run.intr_info # {} /\ run.i = 0 /\ run.injected = {0}
  /\ vcpu.pending_irq = {}
  /\ ~(CPU_BASED_VIRTUAL_INTR_PENDING \subseteq vmcs.CPU_BASED_VM_EXEC_CONTROL)
  /\ vmcs.VM_ENTRY_INTR_INFO_FIELD = INTR_INFO_VALID_MASK \cup FromNat(8)

(***************************************************************************)
(* The control-structure specification: the operations that read or write  *)
(* fields of the hardware control structure, each in the steps LOAD_VMCS,  *)
(* body, RELEASE_VMCS.  KVM_CREATE_VM, KVM_GET_SREGS and KVM_SET_SREGS are *)
(* made by the caller thread under state->ioctl_lock; the run thread makes *)
(* LOAD_VMCS part of the entry and RELEASE_VMCS part of the exit.  Of the  *)
(* fields kvm_get_sregs and kvm_set_sregs access, the control registers    *)
(* are modelled.                                                           *)
(***************************************************************************)
\* kvm_get_sregs between LOAD_VMCS and RELEASE_VMCS: the sregs it fills in
kvm_get_sregs(v, c) ==
  [cr0 |-> c.GUEST_CR0, cr2 |-> v.cr2, cr3 |-> c.GUEST_CR3, cr4 |-> c.GUEST_CR4]

\* kvm_set_sregs between LOAD_VMCS and RELEASE_VMCS: the vcpu and the control structure
kvm_set_sregs(v, c, sregs) ==
  [vcpu |-> [v EXCEPT !.cr2 = sregs.cr2],
   vmcs |-> [c EXCEPT !.GUEST_CR0 = sregs.cr0 \cup {5},
                      !.GUEST_CR3 = sregs.cr3,
                      !.GUEST_CR4 = sregs.cr4 \cup {13}]]

\* the struct kvm_sregs the caller passes
SregsValues ==
  { [cr0 |-> {0}, cr2 |-> {}, cr3 |-> {}, cr4 |-> {}],
    [cr0 |-> {0, 31}, cr2 |-> {12}, cr3 |-> Addr_1000, cr4 |-> {5}] }

VmcsRequests ==
  {<<"KVM_CREATE_VM", {}>>, <<"KVM_GET_SREGS", {}>>}
    \cup { <<"KVM_SET_SREGS", sregs>> : sregs \in SregsValues }

\* kvm_dev_ioctl up to LOAD_VMCS of the command; for KVM_CREATE_VM the allocation of the
\* vcpu, of the root of the page tables and of the control structure, and vmcs_clear
VmcsCall(iCmd, arg) ==
  /\ CtlIdle
  /\ ~ioctl_lock
  /\ (iCmd = "KVM_CREATE_VM") <=> (vcpu = NoVcpu)
  /\ ioctl_lock' = TRUE
  /\ IF iCmd = "KVM_CREATE_VM"
     THEN /\ heap' = ept_init(heap)
          /\ vcpu' = [vcpu_calloc EXCEPT !.pml4 = LastAlloc(heap'), !.pending_io = 0]
          /\ vmcs' = vmcs_clear
     ELSE UNCHANGED <<heap, vcpu, vmcs>>
  /\ call' = [op |-> iCmd, arg |-> arg, pc |-> "load"]
  /\ ncalls' = ncalls + 1
  /\ UNCHANGED <<irq_lock, run, irq, irqHist, ret, out, eptLog, calls, installed, diag>>

\* LOAD_VMCS of the command
VmcsLoad ==
  /\ CtlAt("load")
  /\ ~vcpu.spin_locked
  /\ vcpu' = LOAD_VMCS(vcpu)
  /\ call' = [call EXCEPT !.pc = "body"]
  /\ UNCHANGED <<vmcs, heap, ioctl_lock, irq_lock, run, irq, irqHist, ret, out, ncalls,
                 eptLog, calls, installed, diag>>

\* vcpu_init, or the reads of kvm_get_sregs, or the writes of kvm_set_sregs
VmcsBody ==
  /\ CtlAt("body")
  /\ CASE call.op = "KVM_CREATE_VM" ->
            \E r \in { vcpu_init(heap, vcpu, vmcs) } :
               /\ vcpu' = r.vcpu
               /\ vmcs' = r.vmcs
               /\ heap' = r.heap
               /\ eptLog' = r.log
               /\ out' = out
       [] call.op = "KVM_GET_SREGS" ->
            /\ out' = kvm_get_sregs(vcpu, vmcs)
            /\ UNCHANGED <<vcpu, vmcs, heap, eptLog>>
       [] OTHER ->
            /\ vcpu' = kvm_set_sregs(vcpu, vmcs, call.arg).vcpu
            /\ vmcs' = kvm_set_sregs(vcpu, vmcs, call.arg).vmcs
            /\ UNCHANGED <<heap, eptLog, out>>
  /\ call' = [call EXCEPT !.pc = "release"]
  /\ UNCHANGED <<ioctl_lock, irq_lock, run, irq, irqHist, ret, ncalls, calls, installed,
                 diag>>

\* RELEASE_VMCS of the command, ret = 0 and IOLockUnlock
VmcsRelease ==
  /\ CtlAt("release")
  /\ vcpu' = RELEASE_VMCS(vcpu)
  /\ vmcs' = VMCLEAR(vmcs)
  /\ ret' = 0
  /\ ioctl_lock' = FALSE
  /\ call' = [call EXCEPT !.pc = "done"]
  /\ UNCHANGED <<heap, irq_lock, run, irq, irqHist, out, ncalls, eptLog, calls,
                 installed, diag>>

\* the exits of the runs: handlers that access the control structure and handlers that do
\* not, an exit with an instruction error and a failed entry
ExitsVmcs == {Hlt, Timer, Cr0Write({0, 31}), Cr3Load, CpuidError, EntryFailed, ExtInt}

NextVmcs ==
  \/ ncalls < MaxCalls /\ \E rq \in VmcsRequests : VmcsCall(rq[1], rq[2])
  \/ VmcsLoad
  \/ VmcsBody
  \/ VmcsRelease
  \/ CtlIdle /\ ncalls < MaxCalls /\ run.n < MaxRuns /\ KVM_RUN
  \/ RunWhile
  \/ RunEntry
  \/ \E x \in ExitsVmcs : (run.maxcont < MaxIter \/ x = Hlt) /\ RunExit(x)
  \/ RunExtStore
  \/ RunReturn
  \/ vcpu # NoVcpu /\ irq.n < MaxIrqCalls /\ \E level \in IrqLevels : KVM_IRQ_LINE(3, level)
  \/ IrqStore

SpecVmcs == InitOpened /\ [][NextVmcs]_vars

\* the control structure is loaded and the spin lock of the vcpu is held
Loaded == IF vcpu = NoVcpu THEN FALSE ELSE vcpu.vmcs_loaded = 1 /\ vcpu.spin_locked

\* the step reads or writes fields of the control structure: the body of a command, the
\* entry into the guest, the exit with the capture of the exit record and the handler
AccessesVmcs ==
  \/ vmcs' # vmcs /\ ~(CtlIdle /\ CtlAt("load")')
  \/ CtlAt("body") /\ call' # call
  \/ WorldSwitch
  \/ run.pc \in {"guest", "ext_store"} /\ run' # run

\* the step is the return of a command or of a run
ReturnsFromVmcsOp ==
  \/ CtlAt("release") /\ call' # call
  \/ run.pc = "after" /\ run'.pc = "idle"

\* C26: every step that reads or writes a field of the control structure is made with the
\* control structure loaded and the spin lock held (the entry into the guest makes its
\* LOAD_VMCS first), the control structure is loaded at no other position of a thread than
\* between LOAD_VMCS and RELEASE_VMCS, and at the return of every command and of every run,
\* a run ended by an instruction error included, it is cleared, the spin lock is free and
\* the loaded flag is 0
C26_VmcsBracket ==
  [][ /\ AccessesVmcs => IF WorldSwitch THEN ~Loaded /\ Loaded' ELSE Loaded
      /\ Loaded' => \/ run'.pc \in {"guest", "ext_store"}
                    \/ CtlAt("body")' \/ CtlAt("release")'
      /\ ReturnsFromVmcsOp => /\ vcpu'.vmcs_loaded = 0
                              /\ ~vcpu'.spin_locked ]_vars

\* KVM_SET_SREGS returned after a run that a failed entry had ended: the control registers
\* hold what the command wrote and the control structure is released
C26_Witness ==
  /\ CtlAt("done") /\ call.op = "KVM_SET_SREGS"
  /\ vmcs.GUEST_CR0 = {0, 5, 31} /\ vmcs.GUEST_CR3 = Addr_1000 /\ vmcs.GUEST_CR4 = {5, 13}
  /\ RunReturned /\ run.x = EntryFailed /\ run.error # {}
  /\ Released
  /\ ~ioctl_lock

(***************************************************************************)
(* The MSR specification: runs whose exits are wrmsr and rdmsr of the      *)
(* guest.  The MSR of the host is what the exit record carries in msr: no  *)
(* statement of the program writes a host MSR, so it is the same at every  *)
(* exit.  Before and after a run the caller sets and reads the registers.  *)
(***************************************************************************)
\* wrmsr with ecx = msr, edx:eax = 0xdd:val, and rdmsr with ecx = msr
MsrWrite(msr, val) == Exit(EXIT_REASON_MSR_WRITE, {}, GuestRegs(val, msr))
MsrRead(msr)       == Exit(EXIT_REASON_MSR_READ, {}, GuestRegs(FromNat(1), msr))

ExitsMsr ==
  { MsrWrite(Hex(<<1, 0>>), Hex(<<3>>)), MsrWrite(Hex(<<1, 0>>), Hex(<<1, 0, 0, 0, 0, 0, 0, 0, 7>>)),
    MsrWrite(Hex(<<1, 11>>), Hex(<<3>>)), MsrRead(Hex(<<1, 0>>)), MsrRead(Hex(<<1, 11>>)), Hlt }

NextMsr ==
  \/ ncalls < MaxCalls /\ \E kvm_regs \in RegFiles : KVM_SET_REGS(kvm_regs)
  \/ ncalls < MaxCalls /\ KVM_GET_REGS
  \/ ncalls < MaxCalls /\ run.n < MaxRuns /\ KVM_RUN
  \/ RunWhile
  \/ RunEntry
  \/ \E x \in ExitsMsr : (run.maxcont <= MaxIter \/ x = Hlt) /\ RunExit(x)
  \/ RunReturn

SpecMsr == InitCreated /\ [][NextMsr]_vars

\* the step is the exit x with reason number reason, its handler included
IsExit(reason) ==
  run.pc = "guest" /\ run'.pc # "guest" /\ run'.x.reason = FromNat(reason)

Cr4Read     == Exit(EXIT_REASON_CR_ACCESS, {2, 4}, G0)
Cr8WriteRbx == Exit(EXIT_REASON_CR_ACCESS, {3, 8, 9}, G0)

ExitsFrame ==
  {ExtInt, ExtIntSignal, ExtIntOther, IntrWindow, Timer, Cr4Write, Cr4Read, Cr8WriteRbx, Hlt}

NextFrame ==
  \/ run.n < MaxRuns /\ KVM_RUN
  \/ IsRunThread
  \/ \E x \in ExitsFrame : (run.maxcont < MaxIter \/ x = Hlt) /\ RunExit(x)
  \/ irq.n < MaxIrqCalls /\ \E level \in IrqLevels : KVM_IRQ_LINE(0, level)
  \/ IrqStore

SpecFrame == InitCreated /\ [][NextFrame]_vars

\* the reasons of the exits whose handlers emulate no instruction
NoSkipReasons ==
  { FromNat(EXIT_REASON_EXTERNAL_INTERRUPT), FromNat(EXIT_REASON_PENDING_INTERRUPT),
    FromNat(EXIT_REASON_PREEMPTION_TIMER) }

\* the number of the control register in the exit qualification of x
CrNum(x) == ToNat(x.qualification \cap FromNat(15))

\* C28: after an external-interrupt, interrupt-window or preemption-timer exit the vcpu
\* holds rip and every general-purpose register as the guest had them at the exit, and the
\* next world switch of the run enters the guest at that rip; the handler of an access to
\* a control register other than cr0 and cr3 advances rip by the instruction length,
\* changes no other register, no paging state and no field of the control structure (the
\* exit itself stores the guest's rip, rsp and rflags and clears the valid bit of the
\* interruption field, and RELEASE_VMCS clears the launch state), and returns continue.
C28_FrameOfExits ==
  [][ /\ (run.pc \in {"guest", "ext_store"} /\ run' # run /\ run'.pc # "guest"
            /\ run'.x.reason \in NoSkipReasons)
         => vcpu'.regs = run'.x.regs
      /\ (WorldSwitch /\ run.x # NoExit /\ run.x.reason \in NoSkipReasons)
         => /\ vmcs'.GUEST_RIP = run.x.regs["rip"]
            /\ vmcs'.GUEST_RSP = run.x.regs["rsp"]
            /\ vcpu'.regs = run.x.regs
      /\ (IsExit(EXIT_REASON_CR_ACCESS) /\ CrNum(run'.x) \notin {0, 3})
         => /\ vcpu'.regs = [run'.x.regs EXCEPT
                               !["rip"] = Add64(@, run'.x.instruction_len)]
            /\ vcpu'.paging = vcpu.paging
            /\ vcpu'.cr3_shadow = vcpu.cr3_shadow
            /\ vcpu'.pending_irq = vcpu.pending_irq
            /\ \A f \in DOMAIN vmcs \ {"GUEST_RIP", "GUEST_RSP", "GUEST_RFLAGS",
                                         "VM_ENTRY_INTR_INFO_FIELD", "launch_state"} :
                 vmcs'[f] = vmcs[f]
            /\ run'.cont = 1
            /\ run'.pc = "while" ]_vars

\* the second entry of a run, made after an interrupt-window exit at rip 0x7c00, enters the
\* guest at 0x7c00 with the registers of the exit
C28_Witness ==
  /\ run.pc = "guest" /\ run.switches = 2
  /\ run.x = IntrWindow
  /\ vmcs.GUEST_RIP = Hex(<<7, 12, 0, 0>>)
  /\ vcpu.regs = G0

(***************************************************************************)
(* The teardown of the page tables: ept_free, called by kvm_dev_close      *)
(* when no ioctl is in progress, after KVM_SET_USER_MEMORY_REGION calls.   *)
(* The result of ept_free is the sequence of its IOFree calls.             *)
(***************************************************************************)
\* the slots of the second page of table p that were written
ShadowSlots(h, p) == {k \in DOMAIN h[NodeOf(p)].w : k >= PAGE_OFFSET}

\* one of the three nested loops of ept_free over the slots S of table p, in ascending
\* order; depth is 3 for the loop over the root, whose children are freed with two pages,
\* and 1 for the innermost, whose children are freed with one page
RECURSIVE EptFreeLoop(_, _, _, _)
EptFreeLoop(h, p, S, depth) ==
  IF S = {} THEN <<>>
  ELSE LET i     == CHOOSE k \in S : \A m \in S : k <= m
           child == Load(h, p, i)
           rest  == EptFreeLoop(h, p, S \ {i}, depth)
       IN  IF child = NULL THEN rest
           ELSE (IF depth > 1
                 THEN EptFreeLoop(h, child, ShadowSlots(h, child), depth - 1)
                 ELSE <<>>)
                \o <<[ptr |-> child,
                      size |-> IF depth > 1 THEN 2 * PAGE_SIZE ELSE PAGE_SIZE]>>
                \o rest

\* ept_free without the IOFree of the root
ept_free_keeps_root(h, v) == EptFreeLoop(h, v.pml4, ShadowSlots(h, v.pml4), 3)

\* ept_free: the IOFree calls it makes, in order
ept_free(h, v) ==
  EptFreeLoop(h, v.pml4, ShadowSlots(h, v.pml4), 3)
    \o <<[ptr |-> v.pml4, size |-> 2 * PAGE_SIZE]>>

\* kvm_dev_close from ept_free on, for a vcpu that was mapped: the state is gone
EptFree ==
  /\ ~ioctl_lock
  /\ vcpu # NoVcpu
  /\ vcpu # NoState
  /\ call' = [op |-> "ept_free", freed |-> ept_free(heap, vcpu)]
  /\ vcpu' = NoState
  /\ UNCHANGED <<vmcs, heap, ioctl_lock, irq_lock, run, irq, irqHist, ret, out, ncalls,
                 eptLog, calls, installed, diag>>

NextFree ==
  \/ /\ vcpu # NoState
     /\ ncalls < MaxCalls
     /\ \E rq \in Requests : KVM_SET_USER_MEMORY_REGION(rq.mr, rq.prepare, rq.frames)
  \/ EptFree

SpecFree == InitCreated /\ [][NextFree]_vars

\* the tables with a second page of pointers: the root and the tables of levels 3 and 2
HasShadow(h, k) == h[k].len = 2 * PAGE_OFFSET

\* the slots of the second pages of h that hold the pointer p
LinksTo(h, p) ==
  { <<k, i>> \in (DOMAIN h) \X (PAGE_OFFSET..(2 * PAGE_OFFSET - 1)) :
      HasShadow(h, k) /\ i \in DOMAIN h[k].w /\ h[k].w[i] = p }

\* C29: a KVM_SET_USER_MEMORY_REGION call leaves every allocation where and as large as it
\* was and every link of a table to a lower table as it was, and each table it allocates is
\* linked from exactly one slot, which was empty before; ept_free calls IOFree exactly once
\* for every table, the root included, with the size it was allocated with, and for
\* nothing else: not for the APIC pages and not for a frame mapped into the guest.
C29_NodesOnceAndFreedOnce ==
  [][ /\ (vcpu' # NoState)
         => /\ Len(heap') >= Len(heap)
            /\ \A k \in DOMAIN heap :
                 /\ heap'[k].len = heap[k].len
                 /\ HasShadow(heap, k)
                    => \A i \in DOMAIN heap[k].w :
                         heap[k].w[i] # NULL
                           => i \in DOMAIN heap'[k].w /\ heap'[k].w[i] = heap[k].w[i]
            /\ \A k \in (DOMAIN heap') \ (DOMAIN heap) :
                 /\ Cardinality(LinksTo(heap', NodeVA(k))) = 1
                 /\ \A l \in LinksTo(heap', NodeVA(k)) :
                      l[1] \in DOMAIN heap => Load(heap, NodeVA(l[1]), l[2]) = NULL
      /\ (vcpu # NoState /\ vcpu' = NoState)
         => LET freed == call'.freed
                ptrs  == {freed[n].ptr : n \in DOMAIN freed}
            IN  /\ \A n, m \in DOMAIN freed : n # m => freed[n].ptr # freed[m].ptr
                /\ ptrs = {NodeVA(k) : k \in DOMAIN heap}
                            \ {vcpu.virtual_apic_page, vcpu.apic_access}
                /\ \A n \in DOMAIN freed :
                     /\ IsNode(heap, freed[n].ptr)
                     /\ freed[n].size = heap[NodeOf(freed[n].ptr)].len * 8
                     /\ \A e \in DOMAIN eptLog : eptLog[e].pa # __pa(freed[n].ptr) ]_vars

\* ept_free ran on page tables with two tables of level 1 or more
C29_Witness ==
  /\ vcpu = NoState
  /\ call.op = "ept_free"
  /\ Len(call.freed) >= 6
  /\ Cardinality({n \in DOMAIN call.freed : call.freed[n].size = PAGE_SIZE}) >= 2
  /\ call.freed[Len(call.freed)].size = 2 * PAGE_SIZE
  /\ Len(eptLog) >= 3

\* C30 as stated: the pending bit of a line that only KVM_IRQ_LINE sets (every line but 0,
\* which the external-interrupt handler sets as well) goes from set to clear only in the
\* store by which the run loop clears the line it has chosen for injection.
C30_AsStated ==
  [][ \A n \in 1..(IRQ_MAX - 1) :
        (n \in vcpu.pending_irq /\ n \notin vcpu'.pending_irq)
          => /\ run.pc = "store" /\ run'.pc = "load"
             /\ run.i = n ]_vars

(***************************************************************************)
(* The cr3 specification: KVM_SET_SREGS and KVM_GET_SREGS calls before and *)
(* after runs whose exits are the guest's mov to cr3 and mov from cr3.     *)
(***************************************************************************)
\* mov to cr3 from rax = 0x2000
Cr3LoadRax == Exit(EXIT_REASON_CR_ACCESS, FromNat(3), GuestRegs(Addr_2000, {}))

ExitsShadow == {Cr3LoadRax, Cr3Load, Cr3Store, Hlt}

ShadowRequests ==
  {<<"KVM_GET_SREGS", {}>>} \cup { <<"KVM_SET_SREGS", sregs>> : sregs \in SregsValues }

NextShadow ==
  \/ ncalls < MaxCalls /\ \E rq \in ShadowRequests : VmcsCall(rq[1], rq[2])
  \/ VmcsLoad
  \/ VmcsBody
  \/ VmcsRelease
  \/ CtlIdle /\ ncalls < MaxCalls /\ run.n < MaxRuns /\ KVM_RUN
  \/ RunWhile
  \/ RunEntry
  \/ \E x \in ExitsShadow : (run.maxcont <= MaxIter \/ x = Hlt) /\ RunExit(x)
  \/ RunReturn

SpecShadow == InitCreated /\ [][NextShadow]_vars

\* the step is the exit for the guest's mov from cr3, its handler included
IsCr3Read ==
  /\ IsExit(EXIT_REASON_CR_ACCESS)
  /\ CrNum(run'.x) = 3
  /\ run'.x.qualification \cap Hex(<<3, 0>>) = {4}

\* the register the exit qualification of x names
CrReg(x) == RegByIndex[ToNat(Shr(x.qualification \cap Hex(<<15, 0, 0>>), 8)) + 1]

\* C31 as stated: whenever no handler is executing (the handlers and the bodies of the
\* commands are single steps, so in every state) the cr3 shadow of the vcpu equals the
\* guest cr3 of the control structure, and the exit for a mov from cr3 puts the guest cr3
\* of the control structure, as the last mov to cr3 or KVM_SET_SREGS left it, into the
\* register the instruction names
C31_AsStated ==
  /\ [](vcpu.cr3_shadow = vmcs.GUEST_CR3)
  /\ [][ IsCr3Read => vcpu'.regs[CrReg(run'.x)] = vmcs.GUEST_CR3 ]_vars

\* the step is an exit of the guest with RELEASE_VMCS made: the handler returned
ExitReleased == run.pc \in {"guest", "ext_store"} /\ run'.pc \notin {"guest", "ext_store"}

\* C32: the launched flag of the vcpu is 0 in every state; every world switch finds the
\* control structure not loaded and in the clear launch state, loads it and takes it to
\* the launched state, which only VMLAUNCH does; RELEASE_VMCS after the exit clears it and
\* unloads it, so that the control structure is launched in no state but those between a
\* world switch and the RELEASE_VMCS of its exit, and two world switches always have a
\* clear and a load between them.
C32_AlwaysLaunch ==
  /\ [](IF vcpu = NoVcpu THEN TRUE
        ELSE /\ vcpu.launched = 0
             /\ vmcs.launch_state = "launched" => run.pc \in {"guest", "ext_store"})
  /\ [][ /\ WorldSwitch => /\ EntryInstruction(vcpu) = "VMLAUNCH"
                           /\ vmcs.launch_state = "clear" /\ vcpu.vmcs_loaded = 0
                           /\ vmcs'.launch_state = "launched" /\ vcpu'.vmcs_loaded = 1
         /\ ExitReleased => /\ vmcs'.launch_state = "clear"
                            /\ vcpu'.vmcs_loaded = 0 ]_vars

\* the second world switch of a run, made after a mov to cr0 of the guest and a
\* KVM_SET_SREGS before the run: the guest runs on a launched control structure
C32_Witness ==
  /\ run.pc = "guest" /\ run.switches = 2
  /\ run.x = Cr0Write({0, 31})
  /\ vmcs.launch_state = "launched"
  /\ vcpu.launched = 0 /\ vcpu.vmcs_loaded = 1
  /\ vmcs.GUEST_CR3 = Addr_1000

\* C33 as stated: a run that has returned printed the timeout diagnostic only if the bound
\* was exceeded, after 1000 world switches, with the last handler saying continue; a run
\* that an instruction error ended before, or that a handler stopped, printed none
C33_AsStated ==
  RunReturned =>
    /\ "EXIT FROM TIMEOUT" \in diag => TimedOut /\ run.switches = MaxCont
    /\ (run.error # {} /\ run.switches < MaxCont) => diag = {}
    /\ run.cont = 0 => diag = {}

(***************************************************************************)
(* The walk of the processor through the page table.  It starts at the     *)
(* physical address in EPT_POINTER and reads the first page of each table: *)
(* an entry whose read, write and execute bits are all 0 is not present;   *)
(* bits 12..51 of a present entry are the physical address of the next     *)
(* table, or of the frame at the last level.  The memory-type and other    *)
(* attribute bits of an entry take no part in the walk.                    *)
(***************************************************************************)
\* the kernel address of a physical address, the inverse of __pa
PhysToVirt(pa) == pa \cup KernelBase

\* bits 12..51 of an entry
EntryAddress(e) == {b \in e : b >= 12 /\ b < 52}

\* the entry is present
EntryPresent(e) == 64 \notin e /\ e \cap EPT_DEFAULTS # {}

HwWalk(h, eptp, guest_physical) ==
  LET Absent == [present |-> FALSE, frame |-> {}]
      e4 == Load(h, PhysToVirt(EntryAddress(eptp)), EptIndex(guest_physical, 39))
  IN  IF ~EntryPresent(e4) THEN Absent
      ELSE LET e3 == Load(h, PhysToVirt(EntryAddress(e4)), EptIndex(guest_physical, 30))
           IN  IF ~EntryPresent(e3) THEN Absent
               ELSE LET e2 == Load(h, PhysToVirt(EntryAddress(e3)),
                                   EptIndex(guest_physical, 21))
                    IN  IF ~EntryPresent(e2) THEN Absent
                        ELSE LET e1 == Load(h, PhysToVirt(EntryAddress(e2)),
                                            EptIndex(guest_physical, 12))
                             IN  IF ~EntryPresent(e1) THEN Absent
                                 ELSE [present |-> TRUE, frame |-> EntryAddress(e1)]

\* the tables with a pointer half that the tree under vcpu->pml4 holds: the root, the
\* level-3 tables and the level-2 tables
NonLeafTables(h, v) ==
  LET Children(T) == UNION { {Load(h, p, k) : k \in ShadowSlots(h, p)} \ {NULL} : p \in T }
      level3 == Children({v.pml4})
      level2 == Children(level3)
  IN  {v.pml4} \cup level3 \cup level2

\* the indices below 512 at which either half of table p was ever written; at every other
\* index both halves still hold the 0 of IOCallocAligned
WrittenIndices(h, p) == {k % PAGE_OFFSET : k \in DOMAIN h[NodeOf(p)].w}

\* C34: while the tree exists and the kernel has not faulted, in every table that is not
\* a leaf table, for every index i below 512, entry i is not 0 exactly when pointer slot
\* 512 + i is not null, and it is then the physical address of the table the slot points
\* to with the read, write and execute bits; the walk of the processor from EPT_POINTER
\* and ept_translate find the same frame for every guest physical address, and one is
\* absent exactly when the other is.
C34_HardwareMatchesShadow ==
  (IsNode(heap, vcpu.pml4) /\ ~Faulted) =>
    /\ \A p \in NonLeafTables(heap, vcpu) :
          /\ IsNode(heap, p)
          /\ \A i \in WrittenIndices(heap, p) :
                LET entry == Load(heap, p, i)
                    slot  == Load(heap, p, PAGE_OFFSET + i)
                IN  /\ entry # {} <=> slot # NULL
                    /\ slot # NULL => /\ IsNode(heap, slot)
                                      /\ entry = __pa(slot) \cup EPT_DEFAULTS
    /\ \A a \in Probes :
          LET w == HwWalk(heap, vmcs.EPT_POINTER, a)
              t == ept_translate(heap, vcpu, a)
          IN  IF w.present THEN t = w.frame /\ t # {} ELSE t = {}

\* the tree has a root, a level-3 table and two level-2 tables, and the processor finds
\* frame B for 0x2000, the frame of the APIC-access page for 0xfee00000 and nothing for
\* 0x3000 and for 0x40000000
C34_Witness ==
  /\ Cardinality(NonLeafTables(heap, vcpu)) = 4
  /\ HwWalk(heap, vmcs.EPT_POINTER, Addr_2000) = [present |-> TRUE, frame |-> HostB]
  /\ HwWalk(heap, vmcs.EPT_POINTER, APIC_BASE) =
        [present |-> TRUE, frame |-> __pa(vcpu.apic_access)]
  /\ ~HwWalk(heap, vmcs.EPT_POINTER, Addr_3000).present
  /\ ~HwWalk(heap, vmcs.EPT_POINTER, Addr_40000000).present

====
